---- MODULE Spec2Model ----
(***************************************************************************)
(* A model of railway-ts: the Option and Result containers                 *)
(* (src/src/option/option.ts, src/src/result/result.ts) and the promise    *)
(* bridges of Result.                                                      *)
(*                                                                         *)
(* JavaScript objects live on a heap (a sequence of records; a reference   *)
(* is an index into it), so that "the identical instance" and "a new       *)
(* container" are different things.  Primitive values are tagged records.  *)
(* Every library function is an operator from a machine m = [heap, log]    *)
(* to a completion [heap, log, ret, thrown]; log lists the callback        *)
(* invocations the function made, in order.  Where two modules export the  *)
(* same name, the operator carries the alias src/src/index.ts gives it     *)
(* (map of result.ts is mapResult, map of option.ts is mapOption).         *)
(***************************************************************************)
EXTENDS Integers, Sequences, FiniteSets, TLC

VARIABLES heap, pre, log, pc, call, ret, thrown, input, awaited

vars == <<heap, pre, log, pc, call, ret, thrown, input, awaited>>

(* ---- bounds ---- *)
MaxLen == 3
MaxVal == 1
MaxSeqLen == 1
MaxHeap == 4
MaxBuilt == 1
MaxDepth == 2

(* the arities the overloads of curry, uncurry, tupled and untupled cover *)
MinArity == 2
MaxArity == 5

(* ---- JavaScript values ---- *)
Num(n) == [t |-> "number", n |-> n]
Str(s) == [t |-> "string", s |-> s]
Undef == [t |-> "undefined"]
Null == [t |-> "null"]
NaN == [t |-> "number", nan |-> TRUE]
Ref(r) == [t |-> "object", ref |-> r]

IsRef(v) == v.t = "object"

Vals == {Num(n) : n \in 0..MaxVal}
Errs == {Str("e1"), Num(404)}

(* ---- completions ---- *)
Machine(h) == [heap |-> h, log |-> <<>>]
Return(m, v) == [heap |-> m.heap, log |-> m.log, ret |-> v, thrown |-> FALSE]
Throw(m, v) == [heap |-> m.heap, log |-> m.log, ret |-> v, thrown |-> TRUE]
Alloc(m, obj) ==
  [heap |-> Append(m.heap, obj), log |-> m.log,
   ret |-> Ref(Len(m.heap) + 1), thrown |-> FALSE]
Deref(m, v) == m.heap[v.ref]

(* [] and Array.prototype.push *)
NewArray(m) == Alloc(m, [cls |-> "Array", items |-> <<>>])
push(m, arr, v) ==
  [heap |-> [m.heap EXCEPT ![arr.ref].items = Append(@, v)], log |-> m.log]

(* ---- constructors ---- *)
ok(m, value) == Alloc(m, [ok |-> TRUE, value |-> value, RESULT_BRAND |-> "ok"])
err(m, error) == Alloc(m, [ok |-> FALSE, error |-> error, RESULT_BRAND |-> "error"])
some(m, value) == Alloc(m, [some |-> TRUE, value |-> value, OPTION_BRAND |-> "some"])
none(m) == Alloc(m, [some |-> FALSE, OPTION_BRAND |-> "none"])

IsResultObj(o) == "RESULT_BRAND" \in DOMAIN o
IsOptionObj(o) == "OPTION_BRAND" \in DOMAIN o

(* ---- type guards ---- *)
isOk(m, result) == Deref(m, result).ok
isErr(m, result) == ~Deref(m, result).ok
isSome(m, option) == Deref(m, option).some
(* a slip: absence is told by the payload, not by the tag *)
isNone_byPayload(m, option) ==
  ~("value" \in DOMAIN Deref(m, option)) \/ Deref(m, option).value = Undef

isNone(m, option) == ~Deref(m, option).some

(* ---- values the callbacks and conversions need ---- *)
Bool(b) == [t |-> "boolean", b |-> b]

InstanceOfError(m, v) ==
  /\ IsRef(v)
  /\ "cls" \in DOMAIN Deref(m, v)
  /\ Deref(m, v).cls = "Error"

(* new Error(message) *)
NewError(m, message) == Alloc(m, [cls |-> "Error", message |-> message])

IsArray(m, v) ==
  /\ IsRef(v)
  /\ "cls" \in DOMAIN Deref(m, v)
  /\ Deref(m, v).cls = "Array"

(* String(v), as far as the values of the model go; an array is its elements
   joined by commas, null and undefined elements giving the empty string *)
RECURSIVE String(_, _)
RECURSIVE Join(_, _, _)
Join(m, items, i) ==
  IF i > Len(items) THEN ""
  ELSE (IF i > 1 THEN "," ELSE "")
       \o (IF items[i].t \in {"undefined", "null"} THEN "" ELSE String(m, items[i]).s)
       \o Join(m, items, i + 1)
String(m, v) ==
  CASE v.t = "string" -> v
    [] v.t = "number" -> IF "nan" \in DOMAIN v THEN Str("NaN") ELSE Str(ToString(v.n))
    [] v.t = "boolean" -> Str(IF v.b THEN "true" ELSE "false")
    [] v.t = "undefined" -> Str("undefined")
    [] v.t = "null" -> Str("null")
    [] v.t = "object" ->
         IF InstanceOfError(m, v)
         THEN IF Deref(m, v).message.s = "" THEN Str("Error")
              ELSE Str("Error: " \o Deref(m, v).message.s)
         ELSE IF IsArray(m, v) THEN Str(Join(m, Deref(m, v).items, 1))
         ELSE IF "cls" \in DOMAIN Deref(m, v) /\ Deref(m, v).cls = "Promise"
         THEN Str("[object Promise]")
         ELSE Str("[object Object]")

(* a string without the spaces at its two ends *)
RECURSIVE Trim(_)
Trim(s) ==
  IF s # "" /\ SubSeq(s, 1, 1) = " " THEN Trim(SubSeq(s, 2, Len(s)))
  ELSE IF s # "" /\ SubSeq(s, Len(s), Len(s)) = " " THEN Trim(SubSeq(s, 1, Len(s) - 1))
  ELSE s

(* the value of a run of decimal digits, -1 when a character is no digit *)
RECURSIVE Decimal(_)
Decimal(ds) ==
  IF ds = "" THEN 0
  ELSE LET high == Decimal(SubSeq(ds, 1, Len(ds) - 1))
           c == SubSeq(ds, Len(ds), Len(ds))
       IN IF high < 0 \/ ~\E d \in 0..9 : ToString(d) = c THEN 0 - 1
          ELSE high * 10 + (CHOOSE d \in 0..9 : ToString(d) = c)

(* the number a string stands for: trimmed, the empty one is 0, an optionally
   signed run of decimal digits is its value and any other string of the
   model is NaN *)
SignedDecimal(t) ==
  IF t = "" THEN Num(0)
  ELSE IF SubSeq(t, 1, 1) = "-"
  THEN (IF Len(t) > 1 /\ Decimal(SubSeq(t, 2, Len(t))) >= 0
        THEN Num(0 - Decimal(SubSeq(t, 2, Len(t)))) ELSE NaN)
  ELSE IF SubSeq(t, 1, 1) = "+"
  THEN (IF Len(t) > 1 /\ Decimal(SubSeq(t, 2, Len(t))) >= 0
        THEN Num(Decimal(SubSeq(t, 2, Len(t)))) ELSE NaN)
  ELSE IF Decimal(t) >= 0 THEN Num(Decimal(t)) ELSE NaN

(* Number(v), the conversion the arithmetic operators apply; an object goes
   through its string *)
ToNumber(m, v) ==
  CASE v.t = "number" -> v
    [] v.t = "boolean" -> Num(IF v.b THEN 1 ELSE 0)
    [] v.t = "null" -> Num(0)
    [] v.t = "undefined" -> NaN
    [] OTHER -> SignedDecimal(Trim(String(m, v).s))

(* what iterating v gives: the elements of an array, the characters of a
   string; nothing else of the model can be iterated *)
IsIterable(m, v) == "t" \in DOMAIN v /\ (v.t = "string" \/ IsArray(m, v))
Elements(m, v) ==
  IF v.t = "string" THEN [i \in 1..Len(v.s) |-> Str(SubSeq(v.s, i, i))]
  ELSE Deref(m, v).items

(* the truthiness "a || b" looks at *)
Truthy(v) ==
  CASE v.t = "string" -> v.s # ""
    [] v.t = "number" -> "n" \in DOMAIN v /\ v.n # 0
    [] v.t = "boolean" -> v.b
    [] v.t = "undefined" -> FALSE
    [] v.t = "null" -> FALSE
    [] v.t = "object" -> TRUE

(* ---- callbacks: the functions a caller hands to the library ---- *)
Fn(name) == [name |-> name]
ComposeResult(f, g) == [name |-> "x => flatMapResult(f(x), g)", f |-> f, g |-> g]
ComposeOption(f, g) == [name |-> "x => flatMapOption(f(x), g)", f |-> f, g |-> g]

MapFns == {Fn("inc"), Fn("toString")}
MapErrFns == {Fn("tagError")}
ResultFns == {Fn("okInc"), Fn("errIfOdd"), Fn("alwaysErr")}
OptionFns == {Fn("someInc"), Fn("noneIfOdd"), Fn("alwaysNone")}
Predicates == {Fn("isZero"), Fn("isNumber")}
Thunks == {Fn("returnOne"), Fn("throwError"), Fn("throwString"), Fn("throwNumber")}
StepFns == ResultFns \cup {Fn("asyncOkInc"), Fn("pendingStep"), Fn("throwError")}
DefaultErrorFn == Fn("(error) => error")
Messages == {Str(""), Str("custom message")}
Defaults == {Num(0), Str("default")}
ResultPatterns ==
  [ok : {Fn("gotValue"), Fn("throwError")}, err : {Fn("gotError"), Fn("throwError")}]
OptionPatterns ==
  [some : {Fn("gotValue"), Fn("throwError")}, none : {Fn("returnOne"), Fn("throwError")}]
(* functions of several parameters, and of one tuple parameter *)
JoinFn(n) == [name |-> "join", arity |-> n]
JoinTupleFn(n) == [name |-> "joinTuple", arity |-> n]
NaryFns == {JoinFn(n) : n \in MinArity..MaxArity}
TupleFns == {JoinTupleFn(n) : n \in MinArity..MaxArity}
ArgVals == {Num(1), Str("b")}
IsFunction(v) == "name" \in DOMAIN v
(* fn.length: the declared parameters before a rest parameter *)
Length(fn) ==
  CASE fn.name = "join" -> fn.arity
    [] fn.name \in {"returnOne", "throwError", "throwString", "throwNumber"} -> 0
    [] fn.name \in {"flow", "curried", "uncurried", "untupledFn"} -> 0
    [] OTHER -> 1
FirstFns == {JoinFn(MinArity), Fn("inc"), Fn("throwError")}
PipeFns == {Fn("inc"), Fn("toString"), Fn("sideEffect"), Fn("throwError")}
TapFns == {Fn("sideEffect"), Fn("inc"), Fn("throwError")}

(* x + 1, x % 2 === 1 and x === 0 on any value *)
PlusOne(m, x) ==
  IF x.t = "number" THEN (IF "nan" \in DOMAIN x THEN NaN ELSE Num(x.n + 1))
  ELSE IF x.t = "undefined" THEN NaN
  ELSE IF x.t = "null" THEN Num(1)
  ELSE IF x.t = "boolean" THEN Num(IF x.b THEN 2 ELSE 1)
  ELSE Str(String(m, x).s \o "1")
IsOdd(m, x) ==
  LET n == ToNumber(m, x) IN "n" \in DOMAIN n /\ n.n >= 0 /\ n.n % 2 = 1
IsZero(x) == x.t = "number" /\ "n" \in DOMAIN x /\ x.n = 0

RECURSIVE CallFn(_, _, _)

(* ---- Result.combine ---- *)
(* a slip: the loop keeps going after a failure, so the last failure wins *)
RECURSIVE combineResultLoop_lastErr(_, _, _, _)
combineResultLoop_lastErr(m, results, i, values) ==
  IF i > Len(Deref(m, results).items) THEN ok(m, values)
  ELSE LET result == Deref(m, results).items[i] IN
       IF ~Deref(m, result).ok
       THEN LET rest == combineResultLoop_lastErr(m, results, i + 1, values) IN
            IF Deref(rest, rest.ret).ok THEN Return(m, result) ELSE rest
       ELSE combineResultLoop_lastErr(push(m, values, Deref(m, result).value), results, i + 1, values)

RECURSIVE combineResultLoop(_, _, _, _)
combineResultLoop(m, results, i, values) ==
  IF i > Len(Deref(m, results).items) THEN ok(m, values)
  ELSE LET result == Deref(m, results).items[i] IN
       IF ~Deref(m, result).ok THEN Return(m, result)
       ELSE combineResultLoop(push(m, values, Deref(m, result).value), results, i + 1, values)

combineResult(m, results) ==
  LET a == NewArray(m) IN combineResultLoop(a, results, 1, a.ret)

(* ---- Result.combineAll ---- *)
(* a slip: only the first failure is collected *)
RECURSIVE combineAllResultLoop_firstOnly(_, _, _, _, _)
combineAllResultLoop_firstOnly(m, results, i, errors, values) ==
  IF i > Len(Deref(m, results).items)
  THEN IF Len(Deref(m, errors).items) > 0 THEN err(m, errors) ELSE ok(m, values)
  ELSE LET result == Deref(m, results).items[i] IN
       IF Deref(m, result).ok
       THEN combineAllResultLoop_firstOnly(push(m, values, Deref(m, result).value), results, i + 1, errors, values)
       ELSE IF Len(Deref(m, errors).items) > 0
            THEN combineAllResultLoop_firstOnly(m, results, i + 1, errors, values)
            ELSE combineAllResultLoop_firstOnly(push(m, errors, Deref(m, result).error), results, i + 1, errors, values)

(* a slip: a new error is put in front of the ones collected so far *)
RECURSIVE combineAllResultLoop_unshift(_, _, _, _, _)
combineAllResultLoop_unshift(m, results, i, errors, values) ==
  IF i > Len(Deref(m, results).items)
  THEN IF Len(Deref(m, errors).items) > 0 THEN err(m, errors) ELSE ok(m, values)
  ELSE LET result == Deref(m, results).items[i] IN
       IF Deref(m, result).ok
       THEN combineAllResultLoop_unshift(push(m, values, Deref(m, result).value), results, i + 1, errors, values)
       ELSE combineAllResultLoop_unshift(
              [heap |-> [m.heap EXCEPT ![errors.ref].items = <<Deref(m, result).error>> \o @],
               log |-> m.log],
              results, i + 1, errors, values)

RECURSIVE combineAllResultLoop(_, _, _, _, _)
combineAllResultLoop(m, results, i, errors, values) ==
  IF i > Len(Deref(m, results).items)
  THEN IF Len(Deref(m, errors).items) > 0 THEN err(m, errors) ELSE ok(m, values)
  ELSE LET result == Deref(m, results).items[i] IN
       IF Deref(m, result).ok
       THEN combineAllResultLoop(push(m, values, Deref(m, result).value), results, i + 1, errors, values)
       ELSE combineAllResultLoop(push(m, errors, Deref(m, result).error), results, i + 1, errors, values)

combineAllResult(m, results) ==
  LET e == NewArray(m)
      v == NewArray(e)
  IN combineAllResultLoop(v, results, 1, e.ret, v.ret)

(* ---- Result: map, mapErr, flatMap, filter ---- *)
(* a slip: fn is evaluated before the variant is looked at *)
mapResult_eager(m, result, fn) ==
  LET r == CallFn(m, fn, <<IF Deref(m, result).ok THEN Deref(m, result).value ELSE Undef>>) IN
  IF r.thrown THEN r
  ELSE IF Deref(m, result).ok THEN ok(r, r.ret) ELSE Return(r, result)

mapResult(m, result, fn) ==
  IF Deref(m, result).ok
  THEN LET r == CallFn(m, fn, <<Deref(m, result).value>>) IN
       IF r.thrown THEN r ELSE ok(r, r.ret)
  ELSE Return(m, result)

(* a slip: the error is replaced inside the container that was handed in *)
mapErrorResult_inPlace(m, result, fn) ==
  IF Deref(m, result).ok
  THEN Return(m, result)
  ELSE LET r == CallFn(m, fn, <<Deref(m, result).error>>) IN
       IF r.thrown THEN r
       ELSE Return([r EXCEPT !.heap[result.ref].error = r.ret], result)

mapErrorResult(m, result, fn) ==
  IF Deref(m, result).ok
  THEN Return(m, result)
  ELSE LET r == CallFn(m, fn, <<Deref(m, result).error>>) IN
       IF r.thrown THEN r ELSE err(r, r.ret)

(* a slip: fn is invoked on the failure path as well *)
flatMapResult_noShortCircuit(m, result, fn) ==
  IF Deref(m, result).ok
  THEN CallFn(m, fn, <<Deref(m, result).value>>)
  ELSE CallFn(m, fn, <<Deref(m, result).error>>)

(* a slip: fn is invoked twice on the success path *)
flatMapResult_twice(m, result, fn) ==
  IF Deref(m, result).ok
  THEN LET r == CallFn(m, fn, <<Deref(m, result).value>>) IN
       IF r.thrown THEN r ELSE CallFn(r, fn, <<Deref(m, result).value>>)
  ELSE Return(m, result)

flatMapResult(m, result, fn) ==
  IF Deref(m, result).ok
  THEN CallFn(m, fn, <<Deref(m, result).value>>)
  ELSE Return(m, result)

filterResult(m, result, predicate, error) ==
  IF Deref(m, result).ok
  THEN LET p == CallFn(m, predicate, <<Deref(m, result).value>>) IN
       IF p.thrown THEN p
       ELSE IF p.ret.b THEN Return(p, result) ELSE err(p, error)
  ELSE err(m, error)

(* ---- Option: map, flatMap, filter, combine ---- *)
mapOption(m, option, fn) ==
  IF Deref(m, option).some
  THEN LET r == CallFn(m, fn, <<Deref(m, option).value>>) IN
       IF r.thrown THEN r ELSE some(r, r.ret)
  ELSE none(m)

flatMapOption(m, option, fn) ==
  IF Deref(m, option).some
  THEN CallFn(m, fn, <<Deref(m, option).value>>)
  ELSE none(m)

(* a slip: a kept value is wrapped again instead of handing the input back *)
filterOption_copy(m, option, predicate) ==
  IF Deref(m, option).some
  THEN LET p == CallFn(m, predicate, <<Deref(m, option).value>>) IN
       IF p.thrown THEN p
       ELSE IF p.ret.b THEN some(p, Deref(m, option).value) ELSE none(p)
  ELSE none(m)

filterOption(m, option, predicate) ==
  IF Deref(m, option).some
  THEN LET p == CallFn(m, predicate, <<Deref(m, option).value>>) IN
       IF p.thrown THEN p
       ELSE IF p.ret.b THEN Return(p, option) ELSE none(p)
  ELSE none(m)

(* a slip: absent elements are skipped instead of ending the loop *)
RECURSIVE combineOptionLoop_skip(_, _, _, _)
combineOptionLoop_skip(m, options, i, values) ==
  IF i > Len(Deref(m, options).items) THEN some(m, values)
  ELSE LET option == Deref(m, options).items[i] IN
       IF ~Deref(m, option).some THEN combineOptionLoop_skip(m, options, i + 1, values)
       ELSE combineOptionLoop_skip(push(m, values, Deref(m, option).value), options, i + 1, values)

RECURSIVE combineOptionLoop(_, _, _, _)
combineOptionLoop(m, options, i, values) ==
  IF i > Len(Deref(m, options).items) THEN some(m, values)
  ELSE LET option == Deref(m, options).items[i] IN
       IF ~Deref(m, option).some THEN none(m)
       ELSE combineOptionLoop(push(m, values, Deref(m, option).value), options, i + 1, values)

combineOption(m, options) ==
  LET a == NewArray(m) IN combineOptionLoop(a, options, 1, a.ret)

(* ---- tap, tapErr ---- *)
(* a slip: tap written like map, the callback's outcome is wrapped *)
tapResult_map(m, result, fn) ==
  IF isOk(m, result)
  THEN LET r == CallFn(m, fn, <<Deref(m, result).value>>) IN
       IF r.thrown THEN r ELSE ok(r, r.ret)
  ELSE Return(m, result)

tapResult(m, result, fn) ==
  IF isOk(m, result)
  THEN LET r == CallFn(m, fn, <<Deref(m, result).value>>) IN
       IF r.thrown THEN r ELSE Return(r, result)
  ELSE Return(m, result)

tapErrorResult(m, result, fn) ==
  IF isErr(m, result)
  THEN LET r == CallFn(m, fn, <<Deref(m, result).error>>) IN
       IF r.thrown THEN r ELSE Return(r, result)
  ELSE Return(m, result)

tapOption(m, option, fn) ==
  IF isSome(m, option)
  THEN LET r == CallFn(m, fn, <<Deref(m, option).value>>) IN
       IF r.thrown THEN r ELSE Return(r, option)
  ELSE Return(m, option)

(* ---- unwrap; errorMsg is undefined when the caller leaves it out ---- *)
(* a slip: the default message does not mention the contained error *)
unwrapResult_fixedDefault(m, result, errorMsg) ==
  IF Deref(m, result).ok THEN Return(m, Deref(m, result).value)
  ELSE LET e == NewError(m, IF Truthy(errorMsg) THEN errorMsg
                            ELSE Str("Cannot unwrap an error Result"))
       IN Throw(e, e.ret)

unwrapResult(m, result, errorMsg) ==
  IF Deref(m, result).ok THEN Return(m, Deref(m, result).value)
  ELSE LET e == NewError(m, IF Truthy(errorMsg) THEN errorMsg
                            ELSE Str("Cannot unwrap an error Result: "
                                     \o String(m, Deref(m, result).error).s))
       IN Throw(e, e.ret)

unwrapOption(m, option, errorMsg) ==
  IF Deref(m, option).some THEN Return(m, Deref(m, option).value)
  ELSE LET e == NewError(m, IF Truthy(errorMsg) THEN errorMsg
                            ELSE Str("Cannot unwrap a none Option"))
       IN Throw(e, e.ret)

(* ---- unwrapOrElse ---- *)
(* a slip: the default is computed before the variant is looked at *)
unwrapResultOrElse_eager(m, result, defaultFn) ==
  LET d == CallFn(m, defaultFn, <<>>) IN
  IF d.thrown THEN d
  ELSE IF Deref(m, result).ok THEN Return(d, Deref(m, result).value) ELSE d

unwrapResultOrElse(m, result, defaultFn) ==
  IF Deref(m, result).ok THEN Return(m, Deref(m, result).value)
  ELSE CallFn(m, defaultFn, <<>>)

unwrapOptionOrElse(m, option, defaultFn) ==
  IF Deref(m, option).some THEN Return(m, Deref(m, option).value)
  ELSE CallFn(m, defaultFn, <<>>)

(* ---- Option.fromNullable ---- *)
(* a slip: presence is told by truthiness *)
fromNullableOption_truthy(m, value) ==
  IF Truthy(value) THEN some(m, value) ELSE none(m)

fromNullableOption(m, value) ==
  IF value = Null \/ value = Undef THEN none(m) ELSE some(m, value)

(* ---- unwrapOr, match, mapToOption, mapToResult ---- *)
unwrapResultOr(m, result, defaultValue) ==
  Return(m, IF Deref(m, result).ok THEN Deref(m, result).value ELSE defaultValue)

unwrapOptionOr(m, option, defaultValue) ==
  Return(m, IF Deref(m, option).some THEN Deref(m, option).value ELSE defaultValue)

matchResult(m, result, patterns) ==
  IF isOk(m, result) THEN CallFn(m, patterns.ok, <<Deref(m, result).value>>)
  ELSE CallFn(m, patterns.err, <<Deref(m, result).error>>)

matchOption(m, option, patterns) ==
  IF isSome(m, option) THEN CallFn(m, patterns.some, <<Deref(m, option).value>>)
  ELSE CallFn(m, patterns.none, <<>>)

(* a slip: the payload is taken with unwrap, which raises on an Err *)
mapToOption_unwrap(m, result) ==
  LET u == unwrapResult(m, result, Undef) IN
  IF u.thrown THEN u ELSE some(u, u.ret)

mapToOption(m, result) ==
  IF Deref(m, result).ok THEN some(m, Deref(m, result).value) ELSE none(m)

(* a slip: presence is told by the truthiness of the payload as well *)
mapToResult_truthy(m, option, error) ==
  IF Deref(m, option).some /\ Truthy(Deref(m, option).value)
  THEN ok(m, Deref(m, option).value) ELSE err(m, error)

mapToResult(m, option, error) ==
  IF Deref(m, option).some THEN ok(m, Deref(m, option).value) ELSE err(m, error)

(* ---- Result: fromTry, fromTryWithError ---- *)
fromTry(m, f) ==
  LET r == CallFn(m, f, <<>>) IN
  IF ~r.thrown THEN ok(r, r.ret)
  ELSE err(r, IF InstanceOfError(r, r.ret) THEN Deref(r, r.ret).message ELSE String(r, r.ret))

fromTryWithError(m, f) ==
  LET r == CallFn(m, f, <<>>) IN
  IF ~r.thrown THEN ok(r, r.ret)
  ELSE IF InstanceOfError(r, r.ret) THEN err(r, r.ret)
       ELSE LET e == NewError(r, String(r, r.ret)) IN err(e, e.ret)

(* ---- promises ---- *)
(* of is the promise's type parameter: "value" for Promise<T> with T a plain
   value, "Result" for Promise<Result<T, E>> *)
NewPromise(m, of) ==
  Alloc(m, [cls |-> "Promise", state |-> "pending", value |-> Undef, of |-> of])
Settle(h, p, state, v) == [h EXCEPT ![p.ref].state = state, ![p.ref].value = v]
IsPromise(h, v) ==
  /\ IsRef(v)
  /\ "cls" \in DOMAIN h[v.ref]
  /\ h[v.ref].cls = "Promise"
IsPending(h, v) == IsPromise(h, v) /\ h[v.ref].state = "pending"

(* await v: the function goes on once v is not a pending promise, with the
   value v fulfilled with, with the reason it rejected with raised, or with v
   itself when v is no promise *)
CanResume(h, v) == ~IsPending(h, v)
Await(m, v) ==
  IF IsPromise(m.heap, v)
  THEN IF Deref(m, v).state = "fulfilled" THEN Return(m, Deref(m, v).value)
       ELSE Throw(m, Deref(m, v).value)
  ELSE Return(m, v)

(* ---- Result: fromPromise, fromPromiseWithError (from the await on) ---- *)
(* a slip: no catch, a rejection of the input comes out as it is *)
fromPromise_noCatch(m, promise) ==
  LET a == Await(m, promise) IN
  IF ~a.thrown THEN ok(a, a.ret) ELSE a

fromPromise(m, promise) ==
  LET a == Await(m, promise) IN
  IF ~a.thrown THEN ok(a, a.ret)
  ELSE err(a, IF InstanceOfError(a, a.ret) THEN Deref(a, a.ret).message ELSE String(a, a.ret))

fromPromiseWithError(m, promise, errorFn) ==
  LET a == Await(m, promise) IN
  IF ~a.thrown THEN ok(a, a.ret)
  ELSE LET e == CallFn(a, errorFn, <<a.ret>>) IN
       IF e.thrown THEN e ELSE err(e, e.ret)

(* ---- Result.toPromise ---- *)
(* Promise.resolve(v) hands back v when v is a promise, and a promise
   fulfilled with v otherwise; Promise.reject(v) a promise rejected with v *)
PromiseResolve(m, v) ==
  IF IsPromise(m.heap, v) THEN Return(m, v)
  ELSE LET p == NewPromise(m, "value")
       IN [p EXCEPT !.heap = Settle(p.heap, p.ret, "fulfilled", v)]
PromiseReject(m, v) ==
  LET p == NewPromise(m, "value")
  IN [p EXCEPT !.heap = Settle(p.heap, p.ret, "rejected", v)]

(* a slip: a failure is resolved with, not rejected with *)
toPromise_resolveBoth(m, result) ==
  PromiseResolve(m, IF Deref(m, result).ok THEN Deref(m, result).value
                    ELSE Deref(m, result).error)

toPromise(m, result) ==
  IF Deref(m, result).ok THEN PromiseResolve(m, Deref(m, result).value)
  ELSE PromiseReject(m, Deref(m, result).error)

(* ---- Result.andThenAsync, in its two stretches between awaits ---- *)
(* a slip: the step is run whatever the variant of the settled input *)
andThenAsyncSettled_noShortCircuit(m, input_, fn) ==
  LET a == Await(m, input_) IN
  IF a.thrown THEN [a EXCEPT !.ret = [suspend |-> FALSE, v |-> a.ret]]
  ELSE LET r == CallFn(a, fn, <<IF Deref(a, a.ret).ok THEN Deref(a, a.ret).value ELSE Undef>>) IN
       [r EXCEPT !.ret = [suspend |-> ~r.thrown, v |-> r.ret]]

(* from "const settled = await input" up to the await on fn's outcome, or to
   the return; ret.suspend tells which *)
andThenAsyncSettled(m, input_, fn) ==
  LET a == Await(m, input_) IN
  IF a.thrown THEN [a EXCEPT !.ret = [suspend |-> FALSE, v |-> a.ret]]
  ELSE IF Deref(a, a.ret).ok
       THEN LET r == CallFn(a, fn, <<Deref(a, a.ret).value>>) IN
            [r EXCEPT !.ret = [suspend |-> ~r.thrown, v |-> r.ret]]
       ELSE LET e == err(a, Deref(a, a.ret).error) IN
            [e EXCEPT !.ret = [suspend |-> FALSE, v |-> e.ret]]

(* a slip: a failure of the step is caught and wrapped *)
andThenAsyncReturn_catch(m, outcome) ==
  LET a == Await(m, outcome) IN
  IF a.thrown THEN err(a, a.ret) ELSE a

(* "return await fn(settled.value)", once what fn returned has settled *)
andThenAsyncReturn(m, outcome) == Await(m, outcome)

(* ---- pipe ---- *)
(* a slip: the functions are applied from the last to the first *)
RECURSIVE pipeLoop_rightToLeft(_, _, _, _)
pipeLoop_rightToLeft(m, result, fns, i) ==
  IF i > Len(fns) THEN Return(m, result)
  ELSE LET r == CallFn(m, fns[Len(fns) + 1 - i], <<result>>) IN
       IF r.thrown THEN r ELSE pipeLoop_rightToLeft(r, r.ret, fns, i + 1)

(* a slip: what a function raises is taken for the value of the chain *)
RECURSIVE pipeLoop_recover(_, _, _, _)
pipeLoop_recover(m, result, fns, i) ==
  IF i > Len(fns) THEN Return(m, result)
  ELSE LET r == CallFn(m, fns[i], <<result>>) IN
       IF r.thrown THEN Return(r, r.ret) ELSE pipeLoop_recover(r, r.ret, fns, i + 1)

(* for (const fn of fns) result = fn(result), from the i-th function on *)
RECURSIVE pipeLoop(_, _, _, _)
pipeLoop(m, result, fns, i) ==
  IF i > Len(fns) THEN Return(m, result)
  ELSE LET r == CallFn(m, fns[i], <<result>>) IN
       IF r.thrown THEN r ELSE pipeLoop(r, r.ret, fns, i + 1)

pipe(m, value, fns) == pipeLoop(m, value, fns, 1)

(* ---- flow ---- *)
(* a slip: the first function is handed the first argument only *)
flowComposed_firstArgOnly(m, fns, args) ==
  LET r == CallFn(m, fns[1], <<args[1]>>) IN
  IF r.thrown THEN r ELSE pipeLoop(r, r.ret, fns, 2)

(* the function flow returns for two functions or more: first(...args), then
   the loop over the rest, which is the loop of pipe *)
flowComposed(m, fns, args) ==
  LET r == CallFn(m, fns[1], args) IN
  IF r.thrown THEN r ELSE pipeLoop(r, r.ret, fns, 2)

flow(m, fns) ==
  IF Len(fns) = 1 THEN Return(m, fns[1])
  ELSE Return(m, [name |-> "flow", fns |-> fns])

(* ---- curry ---- *)
curry(m, fn) ==
  Return(m, [name |-> "curried", fn |-> fn, arity |-> Length(fn), args |-> <<>>])

(* a slip: the arguments collected so far are dropped at each application *)
curried_forgets(m, c, args) ==
  IF Len(args) >= c.arity THEN CallFn(m, c.fn, args)
  ELSE Return(m, [c EXCEPT !.args = args])

(* curried(...args), and the function it returns for too few arguments, which
   calls curried(...args, ...nextArgs) *)
curried(m, c, args) ==
  LET all == c.args \o args IN
  IF Len(all) >= c.arity THEN CallFn(m, c.fn, all)
  ELSE Return(m, [c EXCEPT !.args = all])

(* ---- uncurry ---- *)
uncurry(m, fn) == Return(m, [name |-> "uncurried", fn |-> fn])

(* the TypeError the runtime raises, with its message *)
TypeError(m, message) == LET e == NewError(m, Str(message)) IN Throw(e, e.ret)

(* a slip: the arguments are applied from the last to the first *)
RECURSIVE uncurriedLoop_reversed(_, _, _, _)
uncurriedLoop_reversed(m, result, args, i) ==
  IF i > Len(args) THEN Return(m, result)
  ELSE IF ~IsFunction(result) THEN TypeError(m, "result is not a function")
  ELSE LET r == CallFn(m, result, <<args[Len(args) + 1 - i]>>) IN
       IF r.thrown THEN r ELSE uncurriedLoop_reversed(r, r.ret, args, i + 1)

(* for (const arg of args) result = result(arg) *)
RECURSIVE uncurriedLoop(_, _, _, _)
uncurriedLoop(m, result, args, i) ==
  IF i > Len(args) THEN Return(m, result)
  ELSE IF ~IsFunction(result) THEN TypeError(m, "result is not a function")
  ELSE LET r == CallFn(m, result, <<args[i]>>) IN
       IF r.thrown THEN r ELSE uncurriedLoop(r, r.ret, args, i + 1)

uncurried(m, u, args) == uncurriedLoop(m, u.fn, args, 1)

(* ---- tupled, untupled ---- *)
tupled(m, fn) == Return(m, [name |-> "tupledFn", fn |-> fn])
untupled(m, fn) == Return(m, [name |-> "untupledFn", fn |-> fn])

(* fn(...args): args is spread, whatever iterable it is *)
tupledFn(m, c, args) ==
  LET x == IF Len(args) > 0 THEN args[1] ELSE Undef IN
  IF IsIterable(m, x) THEN CallFn(m, c.fn, Elements(m, x))
  ELSE IF "t" \in DOMAIN x /\ x.t \in {"undefined", "null"}
  THEN TypeError(m, "args is not iterable (cannot read property " \o x.t \o ")")
  ELSE TypeError(m, "Spread syntax requires ...iterable[Symbol.iterator] to be a function")

(* fn(args): the rest parameter is a new array *)
untupledFn(m, c, args) ==
  LET a == Alloc(m, [cls |-> "Array", items |-> args]) IN CallFn(a, c.fn, <<a.ret>>)

(* `${a}-${b}-...` over the first n of the values vs, a missing one being
   undefined *)
RECURSIVE Template(_, _, _, _)
Template(m, vs, n, i) ==
  IF i > n THEN ""
  ELSE (IF i > 1 THEN "-" ELSE "")
       \o String(m, IF i <= Len(vs) THEN vs[i] ELSE Undef).s
       \o Template(m, vs, n, i + 1)

(* ---- what the callbacks do ---- *)
CallFn(m0, fn, args) ==
  LET m == [heap |-> m0.heap, log |-> Append(m0.log, [fn |-> fn, args |-> args])]
      x == IF Len(args) > 0 THEN args[1] ELSE Undef
  IN
  CASE fn.name = "inc" -> Return(m, PlusOne(m, x))
    [] fn.name = "toString" ->
         IF x.t \in {"undefined", "null"}
         THEN TypeError(m, "Cannot read properties of " \o x.t \o " (reading 'toString')")
         ELSE Return(m, String(m, x))
    [] fn.name = "tagError" -> Return(m, Str("mapped:" \o String(m, x).s))
    [] fn.name = "okInc" -> ok(m, PlusOne(m, x))
    [] fn.name = "errIfOdd" -> IF IsOdd(m, x) THEN err(m, Str("odd")) ELSE ok(m, x)
    [] fn.name = "alwaysErr" -> err(m, Str("e3"))
    [] fn.name = "someInc" -> some(m, PlusOne(m, x))
    [] fn.name = "noneIfOdd" -> IF IsOdd(m, x) THEN none(m) ELSE some(m, x)
    [] fn.name = "alwaysNone" -> none(m)
    [] fn.name = "isZero" -> Return(m, Bool(IsZero(x)))
    [] fn.name = "isNumber" -> Return(m, Bool(x.t = "number"))
    [] fn.name = "sideEffect" -> Return(m, Undef)
    [] fn.name = "gotValue" -> Return(m, Str("Got " \o String(m, x).s))
    [] fn.name = "gotError" -> Return(m, Str("Got error: " \o String(m, x).s))
    [] fn.name = "returnOne" -> Return(m, Num(1))
    [] fn.name = "throwError" ->
         LET e == NewError(m, Str("boom")) IN Throw(e, e.ret)
    [] fn.name = "throwString" -> Throw(m, Str("oops"))
    [] fn.name = "throwNumber" -> Throw(m, Num(42))
    [] fn.name = "(error) => error" -> Return(m, x)
    [] fn.name = "asyncOkInc" ->
         LET r == ok(m, PlusOne(m, x))
             p == NewPromise(r, "Result")
         IN [p EXCEPT !.heap = Settle(p.heap, p.ret, "fulfilled", r.ret)]
    [] fn.name = "pendingStep" -> NewPromise(m, "Result")
    [] fn.name = "join" -> Return(m, Str(Template(m, args, fn.arity, 1)))
    [] fn.name = "joinTuple" ->
         IF IsIterable(m, x)
         THEN Return(m, Str(Template(m, Elements(m, x), fn.arity, 1)))
         ELSE TypeError(m,
                (CASE IsFunction(x) -> "function"
                   [] x.t = "undefined" -> "undefined"
                   [] x.t = "null" -> "object null"
                   [] x.t = "object" -> "object"
                   [] OTHER -> x.t \o " " \o String(m, x).s)
                \o " is not iterable (cannot read property Symbol(Symbol.iterator))")
    [] fn.name = "flow" -> flowComposed(m, fn.fns, args)
    [] fn.name = "curried" -> curried(m, fn, args)
    [] fn.name = "uncurried" -> uncurried(m, fn, args)
    [] fn.name = "tupledFn" -> tupledFn(m, fn, args)
    [] fn.name = "untupledFn" -> untupledFn(m, fn, args)
    [] fn.name = "(r) => flatMapResult(r, fn)" -> flatMapResult(m, x, fn.fn)
    [] fn.name = "(r) => mapResult(r, fn)" -> mapResult(m, x, fn.fn)
    [] fn.name = "x => flatMapResult(f(x), g)" ->
         LET r == CallFn(m, fn.f, <<x>>) IN
         IF r.thrown THEN r ELSE flatMapResult(r, r.ret, fn.g)
    [] fn.name = "x => flatMapOption(f(x), g)" ->
         LET r == CallFn(m, fn.f, <<x>>) IN
         IF r.thrown THEN r ELSE flatMapOption(r, r.ret, fn.g)

(* ---- the inputs a caller builds before the call under study ---- *)
ResultDescs == [c : {"ok"}, v : Vals] \cup [c : {"err"}, v : Errs]
OptionDescs == [c : {"some"}, v : Vals] \cup [c : {"none"}]

SeqsUpTo(S, n) == UNION {[1..k -> S] : k \in 0..n}

Construct(m, d) ==
  CASE d.c = "ok" -> ok(m, d.v)
    [] d.c = "err" -> err(m, d.v)
    [] d.c = "some" -> some(m, d.v)
    [] d.c = "none" -> none(m)

RECURSIVE BuildInputs(_, _, _)
BuildInputs(m, ds, i) ==
  IF i > Len(ds) THEN m
  ELSE LET c == Construct(m, ds[i]) IN BuildInputs(push(c, Ref(1), c.ret), ds, i + 1)

(* heap[1] is the input array; its elements follow it *)
InputHeap(ds) == BuildInputs(NewArray(Machine(<<>>)), ds, 1).heap

Init ==
  /\ \E ds \in SeqsUpTo(ResultDescs, MaxLen) \cup SeqsUpTo(OptionDescs, MaxLen) :
       heap = InputHeap(ds)
  /\ pre = heap
  /\ input = Ref(1)
  /\ log = <<>>
  /\ pc = "ready"
  /\ call = [op |-> "", args |-> <<>>]
  /\ ret = Undef
  /\ thrown = FALSE
  /\ awaited = Undef

Items == heap[input.ref].items
Items0 == pre[input.ref].items
AllResults == \A i \in 1..Len(Items) : IsResultObj(heap[Items[i].ref])
AllOptions == \A i \in 1..Len(Items) : IsOptionObj(heap[Items[i].ref])

(* one synchronous library call: the whole call is one step; pre keeps the
   heap the call started from *)
Do(op, args, r) ==
  /\ pc = "ready"
  /\ pc' = "done"
  /\ pre' = heap
  /\ call' = [op |-> op, args |-> args]
  /\ heap' = r.heap
  /\ log' = r.log
  /\ ret' = r.ret
  /\ thrown' = r.thrown
  /\ UNCHANGED <<input, awaited>>

IsResultAt(i) == IsResultObj(heap[Items[i].ref])
IsOptionAt(i) == IsOptionObj(heap[Items[i].ref])

CombineResult ==
  /\ AllResults
  /\ Do("combineResult", <<input>>, combineResult(Machine(heap), input))

CombineAllResult ==
  /\ AllResults
  /\ Do("combineAllResult", <<input>>, combineAllResult(Machine(heap), input))

CombineOption ==
  /\ AllOptions
  /\ Do("combineOption", <<input>>, combineOption(Machine(heap), input))

MapResult ==
  \E i \in 1..Len(Items), fn \in MapFns :
    /\ IsResultAt(i)
    /\ Do("mapResult", <<Items[i], fn>>, mapResult(Machine(heap), Items[i], fn))

MapErrorResult ==
  \E i \in 1..Len(Items), fn \in MapErrFns :
    /\ IsResultAt(i)
    /\ Do("mapErrorResult", <<Items[i], fn>>, mapErrorResult(Machine(heap), Items[i], fn))

FlatMapResult ==
  \E i \in 1..Len(Items),
     fn \in ResultFns \cup {ComposeResult(f, g) : f \in ResultFns, g \in ResultFns} :
    /\ IsResultAt(i)
    /\ Do("flatMapResult", <<Items[i], fn>>, flatMapResult(Machine(heap), Items[i], fn))

FilterResult ==
  \E i \in 1..Len(Items), predicate \in Predicates, error \in Errs :
    /\ IsResultAt(i)
    /\ Do("filterResult", <<Items[i], predicate, error>>,
          filterResult(Machine(heap), Items[i], predicate, error))

MapOption ==
  \E i \in 1..Len(Items), fn \in MapFns :
    /\ IsOptionAt(i)
    /\ Do("mapOption", <<Items[i], fn>>, mapOption(Machine(heap), Items[i], fn))

FlatMapOption ==
  \E i \in 1..Len(Items),
     fn \in OptionFns \cup {ComposeOption(f, g) : f \in OptionFns, g \in OptionFns} :
    /\ IsOptionAt(i)
    /\ Do("flatMapOption", <<Items[i], fn>>, flatMapOption(Machine(heap), Items[i], fn))

FilterOption ==
  \E i \in 1..Len(Items), predicate \in Predicates :
    /\ IsOptionAt(i)
    /\ Do("filterOption", <<Items[i], predicate>>,
          filterOption(Machine(heap), Items[i], predicate))

TapResult ==
  \E i \in 1..Len(Items), fn \in TapFns :
    /\ IsResultAt(i)
    /\ Do("tapResult", <<Items[i], fn>>, tapResult(Machine(heap), Items[i], fn))

TapErrorResult ==
  \E i \in 1..Len(Items), fn \in TapFns :
    /\ IsResultAt(i)
    /\ Do("tapErrorResult", <<Items[i], fn>>, tapErrorResult(Machine(heap), Items[i], fn))

TapOption ==
  \E i \in 1..Len(Items), fn \in TapFns :
    /\ IsOptionAt(i)
    /\ Do("tapOption", <<Items[i], fn>>, tapOption(Machine(heap), Items[i], fn))

(* the optional parameter of a call: undefined when it was left out *)
Optional(args, k) == IF Len(args) >= k THEN args[k] ELSE Undef

UnwrapResult ==
  \E i \in 1..Len(Items) :
    \E args \in {<<Items[i]>>} \cup {<<Items[i], errorMsg>> : errorMsg \in Messages} :
      /\ IsResultAt(i)
      /\ Do("unwrapResult", args, unwrapResult(Machine(heap), args[1], Optional(args, 2)))

UnwrapOption ==
  \E i \in 1..Len(Items) :
    \E args \in {<<Items[i]>>} \cup {<<Items[i], errorMsg>> : errorMsg \in Messages} :
      /\ IsOptionAt(i)
      /\ Do("unwrapOption", args, unwrapOption(Machine(heap), args[1], Optional(args, 2)))

UnwrapResultOrElse ==
  \E i \in 1..Len(Items), defaultFn \in Thunks :
    /\ IsResultAt(i)
    /\ Do("unwrapResultOrElse", <<Items[i], defaultFn>>,
          unwrapResultOrElse(Machine(heap), Items[i], defaultFn))

UnwrapOptionOrElse ==
  \E i \in 1..Len(Items), defaultFn \in Thunks :
    /\ IsOptionAt(i)
    /\ Do("unwrapOptionOrElse", <<Items[i], defaultFn>>,
          unwrapOptionOrElse(Machine(heap), Items[i], defaultFn))

UnwrapResultOr ==
  \E i \in 1..Len(Items), defaultValue \in Defaults :
    /\ IsResultAt(i)
    /\ Do("unwrapResultOr", <<Items[i], defaultValue>>,
          unwrapResultOr(Machine(heap), Items[i], defaultValue))

UnwrapOptionOr ==
  \E i \in 1..Len(Items), defaultValue \in Defaults :
    /\ IsOptionAt(i)
    /\ Do("unwrapOptionOr", <<Items[i], defaultValue>>,
          unwrapOptionOr(Machine(heap), Items[i], defaultValue))

MatchResult ==
  \E i \in 1..Len(Items), patterns \in ResultPatterns :
    /\ IsResultAt(i)
    /\ Do("matchResult", <<Items[i], patterns>>, matchResult(Machine(heap), Items[i], patterns))

MatchOption ==
  \E i \in 1..Len(Items), patterns \in OptionPatterns :
    /\ IsOptionAt(i)
    /\ Do("matchOption", <<Items[i], patterns>>, matchOption(Machine(heap), Items[i], patterns))

MapToOption ==
  \E i \in 1..Len(Items) :
    /\ IsResultAt(i)
    /\ Do("mapToOption", <<Items[i]>>, mapToOption(Machine(heap), Items[i]))

MapToResult ==
  \E i \in 1..Len(Items), error \in Errs :
    /\ IsOptionAt(i)
    /\ Do("mapToResult", <<Items[i], error>>, mapToResult(Machine(heap), Items[i], error))

FromTry ==
  \E f \in Thunks :
    /\ pc = "ready"
    /\ Do("fromTry", <<f>>, fromTry(Machine(heap), f))

FromTryWithError ==
  \E f \in Thunks :
    /\ pc = "ready"
    /\ Do("fromTryWithError", <<f>>, fromTryWithError(Machine(heap), f))

Next ==
  \/ CombineResult
  \/ CombineAllResult
  \/ CombineOption
  \/ MapResult
  \/ MapErrorResult
  \/ FlatMapResult
  \/ FilterResult
  \/ MapOption
  \/ FlatMapOption
  \/ FilterOption
  \/ FromTry
  \/ FromTryWithError
  \/ TapResult
  \/ TapErrorResult
  \/ TapOption
  \/ UnwrapResult
  \/ UnwrapOption
  \/ UnwrapResultOr
  \/ UnwrapOptionOr
  \/ MatchResult
  \/ MatchOption
  \/ MapToOption
  \/ MapToResult
  \/ UnwrapResultOrElse
  \/ UnwrapOptionOrElse

Spec == Init /\ [][Next]_vars

(* ---- a caller that makes one call after another on the same inputs ---- *)
InitSeq ==
  /\ \E ds \in SeqsUpTo(ResultDescs, MaxSeqLen) \cup SeqsUpTo(OptionDescs, MaxSeqLen) :
       heap = InputHeap(ds)
  /\ pre = heap
  /\ input = Ref(1)
  /\ log = <<>>
  /\ pc = "ready"
  /\ call = [op |-> "", args |-> <<>>]
  /\ ret = Undef
  /\ thrown = FALSE
  /\ awaited = Undef

(* the caller goes on to its next call, as long as the heap has room *)
NextCall ==
  /\ pc = "done"
  /\ Len(heap) < MaxHeap
  /\ pc' = "ready"
  /\ UNCHANGED <<heap, pre, log, call, ret, thrown, input, awaited>>

NextSeq ==
  \/ Next
  \/ NextCall

SpecSeq == InitSeq /\ [][NextSeq]_vars

(* ======================================================================= *)
(* Building containers and asking for their variant: the constructors, the  *)
(* type guards, and objects a caller writes by hand                        *)
(* ======================================================================= *)
Payloads ==
  {Undef, Null, Num(0), Num(1), Str(""), Str("hello"), Bool(FALSE), Bool(TRUE)}

(* object literals that carry a tag and a payload, and no brand *)
Literals ==
  {[ok |-> TRUE, value |-> Num(1)], [ok |-> FALSE, error |-> Str("e1")],
   [some |-> TRUE, value |-> Num(1)], [some |-> FALSE]}

InitBuild ==
  /\ heap = <<>>
  /\ pre = heap
  /\ input = Undef
  /\ log = <<>>
  /\ pc = "ready"
  /\ call = [op |-> "", args |-> <<>>]
  /\ ret = Undef
  /\ thrown = FALSE
  /\ awaited = Undef

CanBuild == Len(heap) < MaxBuilt

Some ==
  \E value \in Payloads :
    /\ CanBuild
    /\ Do("some", <<value>>, some(Machine(heap), value))

None ==
  /\ CanBuild
  /\ Do("none", <<>>, none(Machine(heap)))

Ok ==
  \E value \in Payloads :
    /\ CanBuild
    /\ Do("ok", <<value>>, ok(Machine(heap), value))

Err ==
  \E error \in Payloads :
    /\ CanBuild
    /\ Do("err", <<error>>, err(Machine(heap), error))

FromNullableOption ==
  \E value \in Payloads :
    /\ CanBuild
    /\ Do("fromNullableOption", <<value>>, fromNullableOption(Machine(heap), value))

(* the caller writes an object literal *)
Literal ==
  \E obj \in Literals :
    /\ CanBuild
    /\ Do("literal", <<>>, Alloc(Machine(heap), obj))

HasTag(r, tag) == tag \in DOMAIN heap[r]

IsOk ==
  \E r \in 1..Len(heap) :
    /\ HasTag(r, "ok")
    /\ Do("isOk", <<Ref(r)>>, Return(Machine(heap), Bool(isOk(Machine(heap), Ref(r)))))

IsErr ==
  \E r \in 1..Len(heap) :
    /\ HasTag(r, "ok")
    /\ Do("isErr", <<Ref(r)>>, Return(Machine(heap), Bool(isErr(Machine(heap), Ref(r)))))

IsSome ==
  \E r \in 1..Len(heap) :
    /\ HasTag(r, "some")
    /\ Do("isSome", <<Ref(r)>>, Return(Machine(heap), Bool(isSome(Machine(heap), Ref(r)))))

IsNone ==
  \E r \in 1..Len(heap) :
    /\ HasTag(r, "some")
    /\ Do("isNone", <<Ref(r)>>, Return(Machine(heap), Bool(isNone(Machine(heap), Ref(r)))))

NextBuild ==
  \/ Some
  \/ None
  \/ Ok
  \/ Err
  \/ FromNullableOption
  \/ Literal
  \/ IsOk
  \/ IsErr
  \/ IsSome
  \/ IsNone
  \/ NextCall

SpecBuild == InitBuild /\ [][NextBuild]_vars

(* ======================================================================= *)
(* The function utilities: one call of pipe on a plain value                *)
(* ======================================================================= *)
InitUtils ==
  /\ heap = <<>>
  /\ pre = heap
  /\ input = Undef
  /\ log = <<>>
  /\ pc = "ready"
  /\ call = [op |-> "", args |-> <<>>]
  /\ ret = Undef
  /\ thrown = FALSE
  /\ awaited = Undef

Held == input # Undef

(* the caller goes on to its next statement: of the call just made it keeps
   the function returned, if one was *)
Continue ==
  /\ pc = "done"
  /\ Len(heap) < MaxHeap
  /\ pc' = "ready"
  /\ pre' = heap
  /\ log' = <<>>
  /\ call' = [op |-> "", args |-> <<>>]
  /\ ret' = IF ~thrown /\ IsFunction(ret) THEN ret ELSE Undef
  /\ thrown' = FALSE
  /\ UNCHANGED <<heap, input, awaited>>

Pipe ==
  \E value \in Vals, fns \in SeqsUpTo(PipeFns, MaxLen) :
    /\ pc = "ready"
    /\ ~Held
    /\ CanBuild
    /\ Do("pipe", <<value>> \o fns, pipe(Machine(heap), value, fns))

(* the caller's side: the function it has bound to a name, the functions it
   can call, and how many adapters a function went through *)
Operands == {h \in {ret} : IsFunction(h)}
Callable == {h \in {input, ret} : Held /\ IsFunction(h)}
RECURSIVE Depth(_)
Depth(h) == IF "fn" \in DOMAIN h THEN 1 + Depth(h.fn) ELSE 0
RECURSIVE Untuples(_)
Untuples(h) ==
  \/ h.name = "untupledFn"
  \/ "fn" \in DOMAIN h /\ Untuples(h.fn)

(* the parameters a function takes: their number, or the length of the one
   tuple it takes *)
RECURSIVE Params(_)
Params(h) ==
  CASE h.name = "join" -> [tuple |-> FALSE, n |-> h.arity]
    [] h.name = "joinTuple" -> [tuple |-> TRUE, n |-> h.arity]
    [] h.name = "uncurried" ->
         [tuple |-> FALSE,
          n |-> IF h.fn.name = "curried" THEN h.fn.arity - Len(h.fn.args) ELSE 1]
    [] h.name = "tupledFn" -> [tuple |-> TRUE, n |-> Params(h.fn).n]
    [] h.name = "untupledFn" -> [tuple |-> FALSE, n |-> Params(h.fn).n]
    [] h.name = "flow" -> Params(h.fns[1])
    [] OTHER -> [tuple |-> FALSE, n |-> 1]

(* const g = flow(f1, ..., fN) *)
Flow ==
  \E first \in FirstFns, rest \in SeqsUpTo(PipeFns, MaxLen - 1) :
    /\ pc = "ready"
    /\ ~Held
    /\ Do("flow", <<first>> \o rest, flow(Machine(heap), <<first>> \o rest))

Curry ==
  \E fn \in NaryFns :
    /\ pc = "ready"
    /\ ~Held
    /\ Do("curry", <<fn>>, curry(Machine(heap), fn))

Uncurry ==
  \E fn \in {h \in Operands : h.name = "curried" /\ Depth(h) < MaxDepth} :
    /\ pc = "ready"
    /\ ~Held
    /\ Do("uncurry", <<fn>>, uncurry(Machine(heap), fn))

Tupled ==
  \E fn \in NaryFns \cup {h \in Operands : /\ h.name \in {"uncurried", "untupledFn"}
                                           /\ Params(h).n >= MinArity
                                           /\ Depth(h) < MaxDepth} :
    /\ pc = "ready"
    /\ ~Held
    /\ Do("tupled", <<fn>>, tupled(Machine(heap), fn))

Untupled ==
  \E fn \in TupleFns \cup {h \in Operands : h.name = "tupledFn" /\ Depth(h) < MaxDepth} :
    /\ pc = "ready"
    /\ ~Held
    /\ Do("untupled", <<fn>>, untupled(Machine(heap), fn))

(* the function just returned is bound to the caller's name *)
Keep ==
  /\ pc = "done"
  /\ ~thrown
  /\ IsFunction(ret)
  /\ input # ret
  /\ input' = ret
  /\ UNCHANGED <<heap, pre, log, pc, call, ret, thrown, awaited>>

(* h(a1, ..., aN) *)
Apply ==
  \E h \in {c \in Callable : ~Params(c).tuple} :
    \E args \in [1..Params(h).n -> ArgVals] :
      /\ pc = "ready"
      /\ Untuples(h) => CanBuild
      /\ Do("call", <<h>> \o args, CallFn(Machine(heap), h, args))

(* h([a1, ..., aN]) *)
ApplyTuple ==
  \E h \in {c \in Callable : Params(c).tuple} :
    \E items \in [1..Params(h).n -> ArgVals] :
      LET t == Alloc(Machine(heap), [cls |-> "Array", items |-> items]) IN
      /\ pc = "ready"
      /\ CanBuild
      /\ Do("call", <<h, t.ret>>, CallFn(t, h, <<t.ret>>))

NextUtils ==
  \/ Pipe
  \/ Flow
  \/ Curry
  \/ Uncurry
  \/ Tupled
  \/ Untupled
  \/ Keep
  \/ Apply
  \/ ApplyTuple
  \/ Continue

SpecUtils == InitUtils /\ [][NextUtils]_vars

(* ======================================================================= *)
(* Railway chains: a Result is built, then piped through flatMap and map   *)
(* steps.                                                                  *)
(* ======================================================================= *)
(* the steps of a railway chain: (r) => flatMap(r, fn) and (r) => map(r, fn) *)
FlatMapStep(fn) == [name |-> "(r) => flatMapResult(r, fn)", fn |-> fn]
MapStep(fn) == [name |-> "(r) => mapResult(r, fn)", fn |-> fn]
RailwaySteps == {FlatMapStep(f) : f \in ResultFns} \cup {MapStep(g) : g \in MapFns}

(* const r = ok(v) *)
Start ==
  \E value \in Vals :
    /\ CanBuild
    /\ Do("ok", <<value>>, ok(Machine(heap), value))

(* pipe(r, step1, ..., stepN) *)
Railway ==
  \E r \in 1..Len(heap), steps \in SeqsUpTo(RailwaySteps, MaxLen) :
    /\ pc = "ready"
    /\ Len(heap) <= MaxBuilt
    /\ IsResultObj(heap[r])
    /\ heap[r].ok
    /\ Do("pipe", <<Ref(r)>> \o steps, pipe(Machine(heap), Ref(r), steps))

NextRailway ==
  \/ Start
  \/ Railway
  \/ Continue

SpecRailway == InitUtils /\ [][NextRailway]_vars

(* ======================================================================= *)
(* The promise bridges: one asynchronous call, and the environment that    *)
(* settles the promises the library waits for                              *)
(* ======================================================================= *)
InitAsync ==
  /\ \/ \E of \in {"value", "Result"} : heap = NewPromise(Machine(<<>>), of).heap
     \/ \E d \in ResultDescs : heap = Construct(Machine(<<>>), d).heap
  /\ pre = heap
  /\ input = Ref(1)
  /\ log = <<>>
  /\ pc = "ready"
  /\ call = [op |-> "", args |-> <<>>]
  /\ ret = Undef
  /\ thrown = FALSE
  /\ awaited = Undef

(* calling an async function: its promise is made, and the body runs up to
   its first await *)
CallAsync(op, args, at) ==
  /\ pc = "ready"
  /\ pc' = at
  /\ call' = [op |-> op, args |-> args]
  /\ pre' = heap
  /\ heap' = NewPromise(Machine(heap), "Result").heap
  /\ ret' = Ref(Len(heap) + 1)
  /\ UNCHANGED <<log, thrown, input, awaited>>

(* the async function ends: its promise fulfils with what it returned, or
   rejects with what it raised *)
Finish(r, v) ==
  /\ pc' = "done"
  /\ heap' = Settle(r.heap, ret, IF r.thrown THEN "rejected" ELSE "fulfilled", v)
  /\ log' = r.log
  /\ UNCHANGED <<pre, call, ret, thrown, input>>

CallFromPromise ==
  \E args \in {<<input>>} \cup {<<input, errorFn>> : errorFn \in MapErrFns} :
    /\ IsPromise(heap, input)
    /\ CallAsync("fromPromise", args, "await promise")

CallFromPromiseWithError ==
  \E args \in {<<input>>} \cup {<<input, errorFn>> : errorFn \in MapErrFns} :
    /\ IsPromise(heap, input)
    /\ CallAsync("fromPromiseWithError", args, "await promise")

CallAndThenAsync ==
  \E fn \in StepFns :
    /\ IsPromise(heap, input) => heap[input.ref].of = "Result"
    /\ CallAsync("andThenAsync", <<input, fn>>, "await input")

(* toPromise is synchronous: the promise it returns is settled already *)
CallToPromise ==
  /\ ~IsPromise(heap, input)
  /\ Do("toPromise", <<input>>, toPromise(Machine(heap), input))

ResumeFromPromise ==
  /\ pc = "await promise"
  /\ call.op = "fromPromise"
  /\ CanResume(heap, call.args[1])
  /\ LET r == fromPromise([heap |-> heap, log |-> log], call.args[1])
     IN Finish(r, r.ret)
  /\ UNCHANGED awaited

ResumeFromPromiseWithError ==
  /\ pc = "await promise"
  /\ call.op = "fromPromiseWithError"
  /\ CanResume(heap, call.args[1])
  /\ LET errorFn == IF Len(call.args) > 1 THEN call.args[2] ELSE DefaultErrorFn
         r == fromPromiseWithError([heap |-> heap, log |-> log], call.args[1], errorFn)
     IN Finish(r, r.ret)
  /\ UNCHANGED awaited

ResumeAndThenSettled ==
  /\ pc = "await input"
  /\ CanResume(heap, call.args[1])
  /\ LET r == andThenAsyncSettled([heap |-> heap, log |-> log], call.args[1], call.args[2])
     IN IF r.ret.suspend
        THEN /\ pc' = "await step"
             /\ awaited' = r.ret.v
             /\ heap' = r.heap
             /\ log' = r.log
             /\ UNCHANGED <<pre, call, ret, thrown, input>>
        ELSE Finish(r, r.ret.v) /\ UNCHANGED awaited

ResumeAndThenReturn ==
  /\ pc = "await step"
  /\ CanResume(heap, awaited)
  /\ LET r == andThenAsyncReturn([heap |-> heap, log |-> log], awaited)
     IN Finish(r, r.ret)
  /\ UNCHANGED awaited

(* the environment settles a pending promise the library did not make *)
EnvPending == {p \in 1..Len(heap) : IsPending(heap, Ref(p)) /\ Ref(p) # ret}

EnvFulfill ==
  \E p \in EnvPending :
    /\ pc # "done"
    /\ \/ /\ heap[p].of = "value"
          /\ \E v \in Vals : heap' = Settle(heap, Ref(p), "fulfilled", v)
       \/ /\ heap[p].of = "Result"
          /\ \E d \in ResultDescs :
               LET c == Construct(Machine(heap), d)
               IN heap' = Settle(c.heap, Ref(p), "fulfilled", c.ret)
    /\ UNCHANGED <<pre, log, pc, call, ret, thrown, input, awaited>>

EnvReject ==
  \E p \in EnvPending :
    /\ pc # "done"
    /\ \/ LET e == NewError(Machine(heap), Str("boom"))
          IN heap' = Settle(e.heap, Ref(p), "rejected", e.ret)
       \/ \E x \in {Str("oops"), Num(42)} : heap' = Settle(heap, Ref(p), "rejected", x)
    /\ UNCHANGED <<pre, log, pc, call, ret, thrown, input, awaited>>

NextAsync ==
  \/ CallFromPromise
  \/ CallFromPromiseWithError
  \/ CallAndThenAsync
  \/ CallToPromise
  \/ ResumeFromPromise
  \/ ResumeFromPromiseWithError
  \/ ResumeAndThenSettled
  \/ ResumeAndThenReturn
  \/ EnvFulfill
  \/ EnvReject

SpecAsync == InitAsync /\ [][NextAsync]_vars

(* the job queue runs the continuation of an await whose promise has settled *)
SpecAsyncFair ==
  /\ InitAsync
  /\ [][NextAsync]_vars
  /\ WF_vars(ResumeFromPromise)


(* ======================================================================= *)
(* Properties                                                              *)
(* ======================================================================= *)
Done(op) == pc = "done" /\ call.op = op

Min(S) == CHOOSE x \in S : \A y \in S : x <= y

(* the elements of the input array as they were before the call *)
Elem0(i) == pre[Items0[i].ref]
ErrIdx == {i \in 1..Len(Items0) : ~Elem0(i).ok}
NoneIdx == {i \in 1..Len(Items0) : ~Elem0(i).some}
Values0 == [i \in 1..Len(Items0) |-> Elem0(i).value]
Errors0 ==
  LET es == SelectSeq(Items0, LAMBDA r : ~pre[r.ref].ok)
  IN [k \in 1..Len(es) |-> pre[es[k].ref].error]

(* the container a call was given as its first argument, before the call,
   and the object the call returned *)
Arg0 == pre[call.args[1].ref]
RetObj == heap[ret.ref]
IsArrayOf(v, xs) == IsRef(v) /\ heap[v.ref] = [cls |-> "Array", items |-> xs]

(* C1: Result.combine is fail-fast, left to right: Ok(values in input order)
   exactly when every element is Ok (Ok([]) for no elements), otherwise the
   Err at the smallest failing index itself, with that element's error. *)
C1_CombineFailFast ==
  Done("combineResult") =>
    /\ ~thrown
    /\ IsResultObj(RetObj)
    /\ RetObj.ok <=> ErrIdx = {}
    /\ ErrIdx = {} => IsArrayOf(RetObj.value, Values0)
    /\ ErrIdx # {} =>
         /\ ret = Items0[Min(ErrIdx)]
         /\ RetObj.error = Elem0(Min(ErrIdx)).error

C1_Witness ==
  /\ Done("combineResult")
  /\ \E i, j \in ErrIdx : i < j /\ Elem0(i).error # Elem0(j).error
  /\ Min(ErrIdx) > 1
  /\ ret = Items0[Min(ErrIdx)]

(* C2: Result.combineAll is exhaustive: Ok(values in input order) exactly when
   no element is an Err, otherwise Err(es) with es the errors of the Err
   elements, all of them and nothing else, in their original order. *)
C2_CombineAllExhaustive ==
  Done("combineAllResult") =>
    /\ ~thrown
    /\ IsResultObj(RetObj)
    /\ RetObj.ok <=> ErrIdx = {}
    /\ ErrIdx = {} => IsArrayOf(RetObj.value, Values0)
    /\ ErrIdx # {} =>
         /\ IsArrayOf(RetObj.error, Errors0)
         /\ Len(heap[RetObj.error.ref].items) = Cardinality(ErrIdx)

C2_Witness ==
  /\ Done("combineAllResult")
  /\ Cardinality(ErrIdx) >= 2
  /\ Len(Items0) > Cardinality(ErrIdx)
  /\ ~RetObj.ok
  /\ heap[RetObj.error.ref].items[1] # heap[RetObj.error.ref].items[2]

(* C3: filter on an Err hands back a failure that carries the original error,
   not errorIfFalse. *)
C3_FilterKeepsOriginalError ==
  (Done("filterResult") /\ ~Arg0.ok) =>
    /\ ~RetObj.ok
    /\ RetObj.error = Arg0.error

(* what the thunk handed to fromTry does when it is run on the heap the call
   started from *)
ThunkRun == CallFn(Machine(pre), call.args[1], <<>>)

(* C4: fromTry(f) runs f once and never raises; Ok(v) when f returns v; when f
   raises an error object, Err holding that very error object; when f raises
   anything else, Err holding a new error object that wraps the value. *)
C4_FromTryKeepsRaisedError ==
  Done("fromTry") =>
    /\ ~thrown
    /\ Len(log) = 1
    /\ IsResultObj(RetObj)
    /\ ~ThunkRun.thrown => (RetObj.ok /\ RetObj.value = ThunkRun.ret)
    /\ ThunkRun.thrown =>
         /\ ~RetObj.ok
         /\ InstanceOfError(Machine(heap), RetObj.error)
         /\ InstanceOfError(ThunkRun, ThunkRun.ret) => RetObj.error = ThunkRun.ret
         /\ ~InstanceOfError(ThunkRun, ThunkRun.ret) =>
              /\ RetObj.error.ref > Len(ThunkRun.heap)
              /\ heap[RetObj.error.ref].message = String(ThunkRun, ThunkRun.ret)

(* C6: map and flatMap on None, Result's map and flatMap on Err, and mapErr on
   Ok invoke their callback zero times and return a container with the tag
   and the payload of the input. *)
C6_NoCallbackOnOtherVariant ==
  /\ ((Done("mapOption") \/ Done("flatMapOption")) /\ ~Arg0.some) =>
       /\ log = <<>>
       /\ ~thrown
       /\ RetObj = Arg0
  /\ ((Done("mapResult") \/ Done("flatMapResult")) /\ ~Arg0.ok) =>
       /\ log = <<>>
       /\ ~thrown
       /\ RetObj = Arg0
  /\ (Done("mapErrorResult") /\ Arg0.ok) =>
       /\ log = <<>>
       /\ ~thrown
       /\ RetObj = Arg0

C6_Witness ==
  /\ Done("mapResult")
  /\ ~Arg0.ok
  /\ log = <<>>
  /\ RetObj.error = Arg0.error

(* how often fn was invoked in a log *)
Count(l, fn) == Cardinality({k \in 1..Len(l) : l[k].fn = fn})

(* flatMap(flatMap(c, f), g), run on the heap the call started from *)
ChainResult(c, f, g) ==
  LET r == flatMapResult(Machine(pre), c, f)
  IN IF r.thrown THEN r ELSE flatMapResult(r, r.ret, g)
ChainOption(c, f, g) ==
  LET r == flatMapOption(Machine(pre), c, f)
  IN IF r.thrown THEN r ELSE flatMapOption(r, r.ret, g)

SameOutcome(l, f, g) ==
  /\ l.thrown = thrown
  /\ Deref(l, l.ret) = RetObj
  /\ Count(l.log, f) = Count(log, f)
  /\ Count(l.log, g) = Count(log, g)

IsCompose == "f" \in DOMAIN call.args[2]

(* C8: flatMap is associative for both containers: flatMap(c, x =>
   flatMap(f(x), g)) has the tag and payload of flatMap(flatMap(c, f), g),
   and invokes f and g as often. *)
C8_FlatMapAssociative ==
  /\ (Done("flatMapResult") /\ IsCompose) =>
       SameOutcome(ChainResult(call.args[1], call.args[2].f, call.args[2].g),
                   call.args[2].f, call.args[2].g)
  /\ (Done("flatMapOption") /\ IsCompose) =>
       SameOutcome(ChainOption(call.args[1], call.args[2].f, call.args[2].g),
                   call.args[2].f, call.args[2].g)

C8_Witness ==
  /\ Done("flatMapResult")
  /\ IsCompose
  /\ call.args[2].f # call.args[2].g
  /\ Count(log, call.args[2].f) = 1
  /\ Count(log, call.args[2].g) = 1
  /\ ~RetObj.ok

(* C9: Option.combine is all-or-nothing: Some(payloads in input order) exactly
   when every element is Some (Some([]) for no elements), and None as soon as
   one element is None, whatever follows it. *)
C9_CombineOptionAllOrNothing ==
  Done("combineOption") =>
    /\ ~thrown
    /\ IsOptionObj(RetObj)
    /\ RetObj.some <=> NoneIdx = {}
    /\ NoneIdx = {} => IsArrayOf(RetObj.value, Values0)
    /\ NoneIdx # {} => RetObj = [some |-> FALSE, OPTION_BRAND |-> "none"]

C9_Witness ==
  /\ Done("combineOption")
  /\ NoneIdx # {}
  /\ Min(NoneIdx) > 1
  /\ Min(NoneIdx) < Len(Items0)
  /\ ~RetObj.some

(* what the predicate answers for the payload of the first argument *)
Holds(predicate) == CallFn(Machine(pre), predicate, <<Arg0.value>>).ret.b

(* C10: filter on Some(v) or Ok(v) returns the identical input when p(v) is
   true, and None, respectively Err(x), when p(v) is false; Option.filter on
   None returns None without invoking p. *)
C10_FilterByPredicate ==
  /\ Done("filterOption") =>
       /\ ~thrown
       /\ (Arg0.some /\ Holds(call.args[2])) => ret = call.args[1]
       /\ (Arg0.some /\ ~Holds(call.args[2])) =>
            RetObj = [some |-> FALSE, OPTION_BRAND |-> "none"]
       /\ ~Arg0.some =>
            (log = <<>> /\ RetObj = [some |-> FALSE, OPTION_BRAND |-> "none"])
  /\ (Done("filterResult") /\ Arg0.ok) =>
       /\ ~thrown
       /\ Holds(call.args[2]) => ret = call.args[1]
       /\ ~Holds(call.args[2]) =>
            RetObj = [ok |-> FALSE, error |-> call.args[3], RESULT_BRAND |-> "error"]

C10_Witness ==
  /\ Done("filterOption")
  /\ Arg0.some
  /\ Holds(call.args[2])
  /\ Len(log) = 1
  /\ ret = call.args[1]

(* the one invocation a call makes of its callback fn with the payload x *)
Invoked(fn, x) == <<[fn |-> fn, args |-> <<x>>]>>

(* C11: tap and tapErr only observe: fn is invoked exactly once, with the
   payload, on Some / Ok (tapErr: on Err, with the error) and not at all
   otherwise; whatever fn returns, the call returns the very instance it was
   given, and that instance is as it was. *)
C11_TapObserves ==
  /\ Done("tapResult") =>
       /\ log = (IF Arg0.ok THEN Invoked(call.args[2], Arg0.value) ELSE <<>>)
       /\ ~thrown => (ret = call.args[1] /\ RetObj = Arg0)
  /\ Done("tapErrorResult") =>
       /\ log = (IF Arg0.ok THEN <<>> ELSE Invoked(call.args[2], Arg0.error))
       /\ ~thrown => (ret = call.args[1] /\ RetObj = Arg0)
  /\ Done("tapOption") =>
       /\ log = (IF Arg0.some THEN Invoked(call.args[2], Arg0.value) ELSE <<>>)
       /\ ~thrown => (ret = call.args[1] /\ RetObj = Arg0)

C11_Witness ==
  /\ Done("tapResult")
  /\ Arg0.ok
  /\ call.args[2] = Fn("inc")
  /\ log = Invoked(Fn("inc"), Arg0.value)
  /\ ret = call.args[1]

(* what the default function handed to unwrapOrElse does when it is run on
   the heap the call started from *)
DefaultRun == CallFn(Machine(pre), call.args[2], <<>>)
Present == IF IsResultObj(Arg0) THEN Arg0.ok ELSE Arg0.some

(* C12: unwrapOrElse is lazy, for Option and Result alike: on Some / Ok the
   payload is returned and defaultFn is not invoked; on None / Err defaultFn
   is invoked exactly once, without arguments, and the call ends as defaultFn
   ended, returning what it returned. *)
C12_UnwrapOrElseLazy ==
  (Done("unwrapResultOrElse") \/ Done("unwrapOptionOrElse")) =>
    /\ Present => (log = <<>> /\ ~thrown /\ ret = Arg0.value)
    /\ ~Present =>
         /\ log = <<[fn |-> call.args[2], args |-> <<>>]>>
         /\ thrown = DefaultRun.thrown
         /\ ret = DefaultRun.ret

C12_Witness ==
  /\ Done("unwrapOptionOrElse")
  /\ ~Arg0.some
  /\ Len(log) = 1
  /\ ~thrown
  /\ ret = Num(1)

(* the error object a call raised *)
Raised == heap[ret.ref]
RaisedError == thrown /\ InstanceOfError(Machine(heap), ret)

(* C13: unwrap returns the payload without raising on Some / Ok; on None /
   Err it raises an error that carries exactly the message the caller
   supplied, whatever string that is, and Option.unwrap without a message
   raises with its fixed default message. *)
C13_UnwrapCarriesMessage ==
  (Done("unwrapResult") \/ Done("unwrapOption")) =>
    /\ Present => (~thrown /\ ret = Arg0.value)
    /\ ~Present =>
         /\ RaisedError
         /\ Len(call.args) > 1 => Raised.message = call.args[2]
         /\ (Len(call.args) = 1 /\ IsOptionObj(Arg0)) =>
              Raised.message = Str("Cannot unwrap a none Option")

(* C14: Result.unwrap on Err(e) without a message raises an error whose
   message ends in String(e), after the fixed words of the library. *)
C14_UnwrapDefaultNamesError ==
  (Done("unwrapResult") /\ ~Arg0.ok /\ Len(call.args) = 1) =>
    /\ RaisedError
    /\ Raised.message =
         Str("Cannot unwrap an error Result: " \o String(Machine(pre), Arg0.error).s)

C14_Witness ==
  /\ Done("unwrapResult")
  /\ Len(call.args) = 1
  /\ Arg0 = [ok |-> FALSE, error |-> Num(404), RESULT_BRAND |-> "error"]
  /\ RaisedError
  /\ Raised.message = Str("Cannot unwrap an error Result: 404")

(* the operations of the two containers other than unwrap *)
TotalOps ==
  {"mapResult", "mapErrorResult", "flatMapResult", "filterResult", "tapResult",
   "tapErrorResult", "unwrapResultOr", "unwrapResultOrElse", "combineResult",
   "combineAllResult", "matchResult", "mapToOption",
   "mapOption", "flatMapOption", "filterOption", "tapOption", "unwrapOptionOr",
   "unwrapOptionOrElse", "combineOption", "matchOption", "mapToResult"}

(* every callback the call invoked came back without raising *)
CallbacksReturn ==
  \A k \in 1..Len(log) : ~CallFn(Machine(heap), log[k].fn, log[k].args).thrown

(* C15: only unwrap can raise: an operation of Option or Result other than
   unwrap, whose callbacks do not raise, returns a value and raises nothing,
   whatever the variant of its container. *)
C15_OnlyUnwrapRaises ==
  (pc = "done" /\ call.op \in TotalOps /\ CallbacksReturn) => ~thrown

C15_Witness ==
  /\ Done("mapToOption")
  /\ ~Arg0.ok
  /\ ~thrown
  /\ RetObj = [some |-> FALSE, OPTION_BRAND |-> "none"]

(* ---- sequences of calls (SpecSeq) ---- *)
IsContainer(h, v) == IsRef(v) /\ (IsResultObj(h[v.ref]) \/ IsOptionObj(h[v.ref]))
(* the containers a call was handed: its first argument, or the elements of
   the array that is its first argument *)
HandedIn(h, args) ==
  IF Len(args) = 0 \/ ~IsRef(args[1]) THEN {}
  ELSE IF IsArray(Machine(h), args[1])
       THEN {h[args[1].ref].items[i] : i \in 1..Len(h[args[1].ref].items)}
       ELSE {args[1]}

(* C16: containers are immutable under every operation: no step of a sequence
   of calls changes an object that existed before it, so every container and
   the input array of combine and combineAll stay what they were before the
   first call; a container that a call returns is either newly constructed
   or the identical instance the call was handed. *)
C16_Immutable ==
  [][/\ Len(heap') >= Len(heap)
     /\ \A r \in 1..Len(heap) : heap'[r] = heap[r]
     /\ (pc' = "done" /\ ~thrown' /\ IsContainer(heap', ret')) =>
          \/ ret'.ref > Len(heap)
          \/ ret' \in HandedIn(heap, call'.args)]_vars

(* a second call on the inputs of a first one that built something *)
C16_Witness ==
  /\ Done("combineAllResult")
  /\ Len(Items) = 1
  /\ Len(pre) > 1 + Len(Items)
  /\ ~RetObj.ok
  /\ heap[1] = [cls |-> "Array", items |-> <<Ref(2)>>]
  /\ heap[2] = [ok |-> FALSE, error |-> Num(404), RESULT_BRAND |-> "error"]

(* combine and combineAll, run on the input array as it was before the call *)
Combined == combineResult(Machine(pre), input)
CombinedAll == combineAllResult(Machine(pre), input)

(* C28: combine and combineAll agree on success and on the first error: one
   is Ok exactly when the other is, then with the same list of values; when
   they are Err, the error of combine is the first of the errors of
   combineAll. *)
C28_CombineAgree ==
  (Done("combineResult") \/ Done("combineAllResult")) =>
    LET c == Deref(Combined, Combined.ret)
        a == Deref(CombinedAll, CombinedAll.ret)
    IN /\ RetObj = (IF call.op = "combineResult" THEN c ELSE a)
       /\ c.ok <=> a.ok
       /\ c.ok => Deref(Combined, c.value).items = Deref(CombinedAll, a.value).items
       /\ ~c.ok =>
            /\ Len(Deref(CombinedAll, a.error).items) >= 1
            /\ c.error = Deref(CombinedAll, a.error).items[1]

C28_Witness ==
  /\ Done("combineAllResult")
  /\ ErrIdx = {2, 3}
  /\ Elem0(2).error # Elem0(3).error
  /\ heap[RetObj.error.ref].items[1] = Elem0(2).error

(* C29: the conversions round-trip up to the lost error: mapToOption of
   mapToResult(o, e) has the tag and payload of o; mapToResult(mapToOption(r),
   e) has the tag and payload of r when r is Ok, and is Err(e) when r is Err,
   whatever error r carried. *)
C29_ConversionsRoundTrip ==
  /\ Done("mapToResult") =>
       LET back == mapToOption(Machine(heap), ret)
       IN ~thrown /\ ~back.thrown /\ Deref(back, back.ret) = Arg0
  /\ Done("mapToOption") =>
       \A e \in Errs :
         LET back == mapToResult(Machine(heap), ret, e)
         IN /\ ~thrown
            /\ ~back.thrown
            /\ Deref(back, back.ret) =
                 (IF Arg0.ok THEN Arg0
                  ELSE [ok |-> FALSE, error |-> e, RESULT_BRAND |-> "error"])

C29_Witness ==
  /\ Done("mapToOption")
  /\ Arg0 = [ok |-> FALSE, error |-> Str("e1"), RESULT_BRAND |-> "error"]
  /\ RetObj = [some |-> FALSE, OPTION_BRAND |-> "none"]
  /\ Deref(mapToResult(Machine(heap), ret, Num(404)), Ref(Len(heap) + 1)).error = Num(404)

(* ---- constructors and type guards (SpecBuild) ---- *)
Guards == {"isOk", "isErr", "isSome", "isNone"}
Genuine(o) == IsResultObj(o) \/ IsOptionObj(o)
AbsentOption == [some |-> FALSE, OPTION_BRAND |-> "none"]
PresentOption(v) == [some |-> TRUE, value |-> v, OPTION_BRAND |-> "some"]

(* C17: forgery resistance: an object written by hand, with a tag and a
   payload but without the brand, is accepted by none of isOk, isErr, isSome
   and isNone. *)
C17_ForgedRejected ==
  (pc = "done" /\ call.op \in Guards /\ ~Genuine(Arg0)) => ret = Bool(FALSE)

(* C18: fromNullable(v) is None exactly when v is null or undefined, and
   Some(v) for every other v, the falsy 0, "" and false among them. *)
C18_FromNullable ==
  Done("fromNullableOption") =>
    /\ ~thrown
    /\ RetObj = (IF call.args[1] \in {Null, Undef} THEN AbsentOption
                 ELSE PresentOption(call.args[1]))

C18_Witness ==
  /\ Done("fromNullableOption")
  /\ call.args[1] = Str("")
  /\ RetObj.some
  /\ RetObj.value = Str("")

(* C19: the variant is fixed by the constructor: some(v) and ok(v) give the
   present / success variant holding v for every v, undefined and the falsy
   values included; none() and err(e) give the absent / failure variant; and
   of the two predicates of a container exactly one holds, the one of its
   constructor. *)
C19_VariantByConstructor ==
  /\ Done("some") => (~thrown /\ RetObj = PresentOption(call.args[1]))
  /\ Done("none") => (~thrown /\ RetObj = AbsentOption)
  /\ Done("ok") =>
       (~thrown /\ RetObj = [ok |-> TRUE, value |-> call.args[1], RESULT_BRAND |-> "ok"])
  /\ Done("err") =>
       (~thrown /\ RetObj = [ok |-> FALSE, error |-> call.args[1], RESULT_BRAND |-> "error"])
  /\ \A r \in 1..Len(heap) :
       /\ IsOptionObj(heap[r]) =>
            /\ isSome(Machine(heap), Ref(r)) <=> heap[r].OPTION_BRAND = "some"
            /\ isNone(Machine(heap), Ref(r)) <=> heap[r].OPTION_BRAND = "none"
       /\ IsResultObj(heap[r]) =>
            /\ isOk(Machine(heap), Ref(r)) <=> heap[r].RESULT_BRAND = "ok"
            /\ isErr(Machine(heap), Ref(r)) <=> heap[r].RESULT_BRAND = "error"
  /\ (pc = "done" /\ call.op \in Guards /\ Genuine(Arg0)) =>
       ret = Bool(call.op = (CASE IsOptionObj(Arg0) /\ Arg0.OPTION_BRAND = "some" -> "isSome"
                               [] IsOptionObj(Arg0) /\ Arg0.OPTION_BRAND = "none" -> "isNone"
                               [] IsResultObj(Arg0) /\ Arg0.RESULT_BRAND = "ok" -> "isOk"
                               [] IsResultObj(Arg0) /\ Arg0.RESULT_BRAND = "error" -> "isErr"))

C19_Witness ==
  /\ Done("isNone")
  /\ Arg0 = PresentOption(Undef)
  /\ ret = Bool(FALSE)

(* ---- pipe (SpecUtils) ---- *)
(* fk(...f2(f1(v))...) for the call pipe(v, f1, ..., fN): args is <<v, f1, ...,
   fN>>; evaluated innermost first, a raise ending the evaluation *)
RECURSIVE Nested(_, _)
Nested(args, k) ==
  IF k = 0 THEN Return(Machine(pre), args[1])
  ELSE LET inner == Nested(args, k - 1) IN
       IF inner.thrown THEN inner ELSE CallFn(inner, args[k + 1], <<inner.ret>>)

(* C20: pipe applies its functions strictly left to right: pipe(v, f1, ...,
   fN), N >= 1, ends as fN(...f2(f1(v))...) ends, with the same value; when no
   fi raises, each fi is invoked exactly once, in index order, f1 with v and
   every other fi with what its predecessor returned; pipe(v, f) is f(v). *)
C20_PipeLeftToRight ==
  (Done("pipe") /\ Len(call.args) > 1) =>
    LET N == Len(call.args) - 1 IN
    /\ thrown = Nested(call.args, N).thrown
    /\ ret = Nested(call.args, N).ret
    /\ ~thrown =>
         /\ Len(log) = N
         /\ \A i \in 1..N :
              log[i] = [fn |-> call.args[i + 1], args |-> <<Nested(call.args, i - 1).ret>>]
    /\ N = 1 =>
         LET fv == CallFn(Machine(pre), call.args[2], <<call.args[1]>>)
         IN thrown = fv.thrown /\ ret = fv.ret

C20_Witness ==
  /\ Done("pipe")
  /\ call.args = <<Num(1), Fn("toString"), Fn("inc"), Fn("inc")>>
  /\ ret = Str("111")
  /\ Len(log) = 3

(* ---- the asynchronous call under study (SpecAsync) ---- *)
(* the promise the call returned, and the rejection or Result of its input *)
Returned == heap[ret.ref]
InputSettled == CanResume(heap, call.args[1])
InputRejected == IsPromise(heap, call.args[1]) /\ heap[call.args[1].ref].state = "rejected"
InputResult ==
  IF IsPromise(heap, call.args[1]) THEN heap[call.args[1].ref].value ELSE call.args[1]
InputOk == InputSettled /\ ~InputRejected /\ heap[InputResult.ref].ok
InputErr == InputSettled /\ ~InputRejected /\ ~heap[InputResult.ref].ok

(* C5: fromPromise(p, errorFn?) resolves to Err(errorFn(x)) when p rejects with
   x, and to Err(x), the raw failure itself, when errorFn is omitted. *)
C5_FromPromiseMapsRejection ==
  (Done("fromPromise") /\ InputRejected) =>
    LET x == heap[call.args[1].ref].value
        expected == IF Len(call.args) > 1
                    THEN CallFn(Machine(heap), call.args[2], <<x>>).ret
                    ELSE x
    IN /\ Returned.state = "fulfilled"
       /\ IsResultObj(heap[Returned.value.ref])
       /\ ~heap[Returned.value.ref].ok
       /\ heap[Returned.value.ref].error = expected

(* C7: andThenAsync(input, step): step is never invoked before input has
   settled; on a settled Err(e) step is never invoked and the returned promise
   resolves to a failure carrying e; on a settled Ok(v) step is invoked
   exactly once, with v, and the returned promise resolves to the Result step
   produced, directly or through a promise. *)
C7_AndThenAsync ==
  call.op = "andThenAsync" =>
    LET step == call.args[2]
        produced == IF IsPromise(heap, awaited) THEN heap[awaited.ref].value ELSE awaited
    IN
    /\ Count(log, step) <= 1
    /\ Count(log, step) > 0 => InputOk
    /\ InputErr =>
         /\ log = <<>>
         /\ pc = "done" =>
              /\ Returned.state = "fulfilled"
              /\ IsResultObj(heap[Returned.value.ref])
              /\ ~heap[Returned.value.ref].ok
              /\ heap[Returned.value.ref].error = heap[InputResult.ref].error
    /\ (InputOk /\ pc \in {"await step", "done"}) =>
         log = <<[fn |-> step, args |-> <<heap[InputResult.ref].value>>]>>
    /\ (pc = "done" /\ awaited # Undef /\ CanResume(heap, awaited)
          /\ ~(IsPromise(heap, awaited) /\ heap[awaited.ref].state = "rejected")) =>
         /\ Returned.state = "fulfilled"
         /\ Returned.value = produced
         /\ IsResultObj(heap[produced.ref])

(* C23: fromPromise yields exactly one outcome: the promise it returns is
   pending while the input is pending, never rejects, resolves to Ok(v)
   exactly when the input fulfilled with v and to an Err exactly when the
   input rejected; once the input has settled it settles, and once it has
   settled it does not change. *)
C23_FromPromiseOneOutcome ==
  /\ (call.op = "fromPromise" /\ InputSettled) ~>
       (call.op = "fromPromise" /\ Returned.state = "fulfilled")
  /\ [](call.op = "fromPromise" =>
         LET p == heap[call.args[1].ref] IN
         /\ p.state = "pending" => Returned.state = "pending"
         /\ Returned.state # "rejected"
         /\ pc = "done" <=> Returned.state = "fulfilled"
         /\ Returned.state = "fulfilled" =>
              /\ IsResultObj(heap[Returned.value.ref])
              /\ heap[Returned.value.ref].ok <=> p.state = "fulfilled"
              /\ ~heap[Returned.value.ref].ok <=> p.state = "rejected"
              /\ heap[Returned.value.ref].ok => heap[Returned.value.ref].value = p.value)
  /\ [][(call.op = "fromPromise" /\ Returned.state # "pending") =>
          /\ ret' = ret
          /\ heap'[ret.ref] = heap[ret.ref]
          /\ IsRef(Returned.value) =>
               heap'[Returned.value.ref] = heap[Returned.value.ref]]_vars

C23_Witness ==
  /\ Done("fromPromise")
  /\ InputRejected
  /\ Returned.state = "fulfilled"
  /\ ~heap[Returned.value.ref].ok

(* C24: toPromise(r) returns a promise that is settled already: fulfilled
   with v for Ok(v), rejected with exactly e for Err(e). *)
C24_ToPromise ==
  Done("toPromise") =>
    /\ ~thrown
    /\ IsPromise(heap, ret)
    /\ ret.ref > Len(pre)
    /\ Arg0.ok => (Returned.state = "fulfilled" /\ Returned.value = Arg0.value)
    /\ ~Arg0.ok => (Returned.state = "rejected" /\ Returned.value = Arg0.error)

C24_Witness ==
  /\ Done("toPromise")
  /\ ~Arg0.ok
  /\ Returned.state = "rejected"
  /\ Returned.value = Num(404)

(* what the step of andThenAsync handed back, when it is a promise *)
StepRejected == IsPromise(heap, awaited) /\ heap[awaited.ref].state = "rejected"
StepRaised == pc = "done" /\ awaited = Undef /\ Len(log) = 1

(* C30: andThenAsync does not capture rejections: when the input promise
   rejects, step is not invoked and the returned promise rejects with the
   same failure; when the input is Ok and step raises, or returns a promise
   that rejects, the returned promise rejects with that failure. *)
C30_AndThenAsyncRejects ==
  (call.op = "andThenAsync" /\ pc = "done") =>
    /\ InputRejected =>
         /\ log = <<>>
         /\ Returned.state = "rejected"
         /\ Returned.value = heap[call.args[1].ref].value
    /\ (InputOk /\ StepRaised) =>
         LET r == CallFn(Machine(heap), call.args[2], <<heap[InputResult.ref].value>>) IN
         /\ r.thrown
         /\ Returned.state = "rejected"
         /\ IsRef(Returned.value)
         /\ heap[Returned.value.ref] = Deref(r, r.ret)
    /\ (InputOk /\ StepRejected) =>
         /\ Returned.state = "rejected"
         /\ Returned.value = heap[awaited.ref].value

C30_Witness ==
  /\ call.op = "andThenAsync"
  /\ pc = "done"
  /\ InputOk
  /\ StepRejected
  /\ Returned.state = "rejected"
  /\ Returned.value = Str("oops")

C7_Witness ==
  /\ call.op = "andThenAsync"
  /\ pc = "done"
  /\ IsPromise(heap, call.args[1])
  /\ InputOk
  /\ Len(log) = 1
  /\ IsPromise(heap, awaited)
  /\ heap[awaited.ref].state = "fulfilled"
  /\ Returned.value = heap[awaited.ref].value
  /\ ~heap[Returned.value.ref].ok

(* ---- functions built and called (SpecUtils) ---- *)
Callee == call.args[1]
CallArgs == Tail(call.args)
Calling(name) == Done("call") /\ Callee.name = name
Actual == [heap |-> heap, log |-> log, ret |-> ret, thrown |-> thrown]
(* how a call ended and with what, an object being taken by its content *)
Outcome(r) ==
  [thrown |-> r.thrown,
   value |-> IF ~IsFunction(r.ret) /\ IsRef(r.ret) THEN r.heap[r.ret.ref] ELSE r.ret]

(* pipe(f1(a1, ..., ak), f2, ..., fN) on the heap h *)
PipeOfFirst(h, fns, args) ==
  LET first == CallFn(Machine(h), fns[1], args) IN
  IF first.thrown THEN first ELSE pipe(first, first.ret, Tail(fns))

(* C21: flow is lazy and repeatable: building g = flow(f1, ..., fN) invokes
   none of the fi; each call g(a1, ..., ak) applies f1 to all the arguments
   and threads the result through f2..fN, as pipe(f1(a1, ..., ak), f2, ...,
   fN) does; g may be called any number of times, and what a call gives
   depends on that call's arguments only. *)
C21_FlowLazyRepeatable ==
  /\ Done("flow") =>
       /\ log = <<>>
       /\ ~thrown
       /\ heap = pre
       /\ Len(call.args) = 1 => ret = call.args[1]
  /\ Calling("flow") =>
       LET expected == PipeOfFirst(pre, Callee.fns, CallArgs)
           fresh == PipeOfFirst(<<>>, Callee.fns, CallArgs)
       IN /\ thrown = expected.thrown
          /\ ret = expected.ret
          /\ heap = expected.heap
          /\ Tail(log) = expected.log
          /\ Outcome(Actual) = Outcome(fresh)

(* g = flow(join, ..., throwError) is called with two arguments a second
   time, after a first call that raised *)
C21_Witness ==
  /\ Calling("flow")
  /\ input = Callee
  /\ Len(CallArgs) = 2
  /\ CallArgs[1] # CallArgs[2]
  /\ Len(log) >= 3
  /\ Len(pre) >= 1
  /\ thrown

(* f1(a1, ..., ak), then f2 .. fk on what came before, on the heap before the
   call of g *)
RECURSIVE FlowNested(_, _, _)
FlowNested(fns, args, k) ==
  IF k = 1 THEN CallFn(Machine(pre), fns[1], args)
  ELSE LET inner == FlowNested(fns, args, k - 1) IN
       IF inner.thrown THEN inner ELSE CallFn(inner, fns[k], <<inner.ret>>)

(* C26: pipe and flow do no error recovery: when step k raises, the steps
   k+1..N are never invoked and the raise reaches the caller of pipe, or of
   the function flow built, as it is; it is not turned into an Err or a
   returned value. *)
C26_NoRecovery ==
  /\ Done("pipe") =>
       \A k \in 1..(Len(call.args) - 1) :
         (Nested(call.args, k).thrown /\ ~Nested(call.args, k - 1).thrown) =>
           /\ thrown
           /\ ret = Nested(call.args, k).ret
           /\ Outcome(Actual) = Outcome(CallFn(Machine(<<>>), call.args[k + 1], <<>>))
           /\ Len(log) = k
           /\ \A j \in 1..k : log[j].fn = call.args[j + 1]
  /\ Calling("flow") =>
       \A k \in 1..Len(Callee.fns) :
         (/\ FlowNested(Callee.fns, CallArgs, k).thrown
          /\ k > 1 => ~FlowNested(Callee.fns, CallArgs, k - 1).thrown) =>
           /\ thrown
           /\ ret = FlowNested(Callee.fns, CallArgs, k).ret
           /\ Outcome(Actual) = Outcome(CallFn(Machine(<<>>), Callee.fns[k], <<>>))
           /\ Len(log) = k + 1
           /\ \A j \in 1..k : log[j + 1].fn = Callee.fns[j]

(* the second of three steps raises an Error, the third is not invoked *)
C26_Witness ==
  /\ Done("pipe")
  /\ Len(call.args) = 4
  /\ call.args[3] = Fn("throwError")
  /\ call.args[2] # Fn("throwError")
  /\ thrown
  /\ InstanceOfError(Machine(heap), ret)
  /\ Len(log) = 2

(* ---- railway chains (SpecRailway) ---- *)
Steps == Tail(call.args)
(* the invocations of the functions the steps were given *)
IsInner(e) == e.fn \in ResultFns \cup MapFns
InnerLog == SelectSeq(log, IsInner)
(* what the function invoked in e returned, on the heap before the chain *)
InnerResult(e) ==
  LET r == CallFn(Machine(pre), e.fn, e.args) IN Outcome(r).value
ReturnsErr(e) ==
  /\ e.fn \in ResultFns
  /\ ~InnerResult(e).ok

(* C25: railway short-circuit: in a pipe chain of Result.flatMap and
   Result.map steps that starts from an Ok, once the function of some step
   returns Err(e), the function of no later step is invoked and the chain ends
   in an Err that carries that first e. *)
C25_RailwayShortCircuit ==
  (Done("pipe") /\ Len(Steps) > 0) =>
    /\ Len(InnerLog) <= Len(Steps)
    /\ \A i \in 1..Len(InnerLog) :
         /\ InnerLog[i].fn = Steps[i].fn
         /\ ReturnsErr(InnerLog[i]) =>
              /\ i = Len(InnerLog)
              /\ ~thrown
              /\ IsResultObj(RetObj)
              /\ ~RetObj.ok
              /\ RetObj.error = InnerResult(InnerLog[i]).error
    /\ (Len(InnerLog) < Len(Steps)) => ReturnsErr(InnerLog[Len(InnerLog)])

(* the first of three steps fails; the second, whose function would fail with
   another error, and the third are passed over *)
C25_Witness ==
  /\ Done("pipe")
  /\ Len(Steps) = 3
  /\ pre[call.args[1].ref].ok
  /\ Steps[1] = FlatMapStep(Fn("errIfOdd"))
  /\ Steps[2] = FlatMapStep(Fn("alwaysErr"))
  /\ Steps[3] = MapStep(Fn("inc"))
  /\ Len(InnerLog) = 1
  /\ Len(log) = 4
  /\ ~RetObj.ok
  /\ RetObj.error = Str("odd")

(* ---- curry, and the adapters (SpecUtils) ---- *)
(* C27: partial applications of a curried function are reusable and
   independent: for curry(f), f of arity N in 2..5, f is not invoked before
   the Nth argument is supplied; the function an application of k < N
   arguments gives may be applied any number of times with different
   arguments; every completed chain invokes f exactly once, with exactly the N
   arguments supplied along that chain, in order, whatever other chains share
   its prefix. *)
C27_CurryPartialsIndependent ==
  /\ Done("curry") =>
       /\ log = <<>>
       /\ ~thrown
       /\ ret.name = "curried"
       /\ ret.fn = call.args[1]
       /\ ret.args = <<>>
       /\ ret.arity \in MinArity..MaxArity
  /\ Calling("curried") =>
       LET f == Callee.fn
           chain == Callee.args \o CallArgs
       IN IF Len(chain) < Callee.arity
          THEN /\ Count(log, f) = 0
               /\ ~thrown
               /\ heap = pre
               /\ ret = [Callee EXCEPT !.args = chain]
          ELSE LET direct == CallFn(Machine(pre), f, chain) IN
               /\ Count(log, f) = 1
               /\ log[Len(log)] = [fn |-> f, args |-> chain]
               /\ Len(chain) = Callee.arity
               /\ thrown = direct.thrown
               /\ ret = direct.ret

(* the caller holds curry(f)(a); curry(f)(a)(b), made from it, is given its
   last argument and f runs once, while the function held is as it was *)
C27_Witness ==
  /\ Calling("curried")
  /\ Held
  /\ input.name = "curried"
  /\ Len(input.args) = 1
  /\ Callee.fn = input.fn
  /\ Len(Callee.args) = 2
  /\ Callee.args[1] = input.args[1]
  /\ Callee.args[2] # input.args[1]
  /\ Callee.arity = 3
  /\ Count(log, Callee.fn) = 1
  /\ ret.t = "string"

(* C22: the adapters are inverse pairs: for f of arity N in 2..5,
   uncurry(curry(f))(a1, ..., aN) and untupled(tupled(f))(a1, ..., aN) are
   f(a1, ..., aN); for g taking one N-tuple t, tupled(untupled(g))(t) is
   g(t). *)
C22_AdaptersInverse ==
  /\ (Calling("uncurried") /\ Callee.fn.name = "curried" /\ Callee.fn.args = <<>>) =>
       LET f == Callee.fn.fn IN
       /\ Outcome(Actual) = Outcome(CallFn(Machine(pre), f, CallArgs))
       /\ Count(log, f) = 1
  /\ (Calling("untupledFn") /\ Callee.fn.name = "tupledFn") =>
       LET f == Callee.fn.fn IN
       /\ Outcome(Actual) = Outcome(CallFn(Machine(pre), f, CallArgs))
       /\ Count(log, f) = 1
  /\ (Calling("tupledFn") /\ Callee.fn.name = "untupledFn") =>
       LET g == Callee.fn.fn IN
       /\ Outcome(Actual) = Outcome(CallFn(Machine(heap), g, CallArgs))
       /\ Count(log, g) = 1

(* uncurry(curry(f)) for f of five parameters is called with arguments that
   differ *)
C22_Witness ==
  /\ Calling("uncurried")
  /\ Callee.fn = [name |-> "curried", fn |-> JoinFn(MaxArity), arity |-> MaxArity, args |-> <<>>]
  /\ Len(CallArgs) = MaxArity
  /\ CallArgs[1] # CallArgs[2]
  /\ ~thrown
  /\ ret = CallFn(Machine(pre), JoinFn(MaxArity), CallArgs).ret

(* untupled(tupled(f)) is called with arguments that differ *)
C22_WitnessUntupled ==
  /\ Calling("untupledFn")
  /\ Callee.fn.name = "tupledFn"
  /\ Callee.fn.fn \in NaryFns
  /\ CallArgs[1] # CallArgs[2]
  /\ ret.t = "string"

(* tupled(untupled(g)) is called with a tuple of elements that differ *)
C22_WitnessTupled ==
  /\ Calling("tupledFn")
  /\ Callee.fn.name = "untupledFn"
  /\ Callee.fn.fn \in TupleFns
  /\ heap[CallArgs[1].ref].items[1] # heap[CallArgs[1].ref].items[2]
  /\ ret.t = "string"

====
